---- MODULE Spec2Model ----
(***************************************************************************)
(* Model of the MeteoService query pipeline: QueryManager.get_data with    *)
(* its gap fetch tasks, Gapfinder.find_data_gaps, the adapter's HTTP       *)
(* client scope and the measurement store.                                 *)
(*                                                                         *)
(* Time is counted in minutes.  A frame is a sequence of rows; a row is a  *)
(* record with the columns datetime, station_id, model and one variable    *)
(* column, tair_2m.  NA is pandas' missing value.                          *)
(***************************************************************************)
EXTENDS Integers, Sequences, FiniteSets, TLC

\* ------------------------------------------------------------------ bounds

\* Grid instants of the modelled time axis are 0, freq, ..., MaxSteps * freq.
MaxSteps == 5
\* A provider answer may reach this many grid steps beyond the bounds asked for.
Slack == 1
\* Number of get_data calls that may be in flight together (SpecConc).
MaxReqs == 2

\* ------------------------------------------------------- program constants

\* Gapfinder.find_data_gaps: min_gap_duration = '30min'
MinGapDuration == 30
\* QueryManager.__init__: max_concurrent_requests = 3
QmMaxConcurrent == 3
\* BaseMeteoHandler.__init__: max_concurrent_requests = 5
AdapterMaxConcurrent == 5

NA == "<NA>"
Station == "S1"
Columns == {"datetime", "station_id", "model", "tair_2m"}

\* The adapters: ProvinceMeteo (freq "10min") and OpenMeteo (freq "h"); both
\* report inclusive "both".  defmodel is the model tag their rows carry when
\* the request names no model.  OpenMeteo sets can_forecast; ProvinceMeteo is
\* an observational provider.
Adapters ==
    { [name |-> "province", freq |-> 10, inclusive |-> "both", defmodel |-> "",
       canForecast |-> FALSE],
      [name |-> "open-meteo", freq |-> 60, inclusive |-> "both", defmodel |-> "m1",
       canForecast |-> TRUE] }

\* BaseMeteoHandler leaves inclusive to the subclass ('left', 'right' or
\* 'both'): hourly adapters of each convention.
TaskAdapters ==
    { [name |-> "hourly", freq |-> 60, inclusive |-> i, defmodel |-> "m1",
       canForecast |-> FALSE] : i \in {"left", "right", "both"} }

Reqs == 1..MaxReqs

\* --------------------------------------------------------------- helpers

Range(s) == {s[i] : i \in DOMAIN s}

Min(S) == CHOOSE x \in S : \A y \in S : x <= y
Max(S) == CHOOSE x \in S : \A y \in S : x >= y

RECURSIVE KeepIdx(_, _, _)
KeepIdx(seq, keep, i) ==
    IF i > Len(seq) THEN <<>>
    ELSE (IF i \in keep THEN <<seq[i]>> ELSE <<>>) \o KeepIdx(seq, keep, i + 1)

RECURSIVE Concat(_)
Concat(frames) ==
    IF frames = <<>> THEN <<>> ELSE Head(frames) \o Concat(Tail(frames))

ModelRank(m) == IF m = "" THEN 0 ELSE IF m = NA THEN 9 ELSE 1

Key(row) == <<row.datetime, row.station_id, row.model>>
Keys(frame) == {Key(frame[i]) : i \in DOMAIN frame}

\* Sort rank of a row: by == "datetime" for sort_values('datetime'),
\* by == "index" for sort_index() on (datetime, station_id, model).
RowRank(row, by) ==
    IF by = "datetime" THEN row.datetime
    ELSE row.datetime * 10 + ModelRank(row.model)

\* x goes behind every row that does not sort after it (a stable sort).
InsertStable(sorted, x, by) ==
    LET before == {i \in DOMAIN sorted : RowRank(sorted[i], by) <= RowRank(x, by)}
        n == Cardinality(before)
    IN SubSeq(sorted, 1, n) \o <<x>> \o SubSeq(sorted, n + 1, Len(sorted))

RECURSIVE SortFrame(_, _)
SortFrame(frame, by) ==
    IF Len(frame) <= 1 THEN frame
    ELSE InsertStable(SortFrame(SubSeq(frame, 1, Len(frame) - 1), by),
                      frame[Len(frame)], by)

\* pandas drop_duplicates(subset = key) and ~index.duplicated(keep = ...)
DropDuplicatesFirst(frame) ==
    KeepIdx(frame, {i \in DOMAIN frame :
                      \A j \in DOMAIN frame : j < i => Key(frame[j]) # Key(frame[i])}, 1)

DropDuplicatesLast(frame) ==
    KeepIdx(frame, {i \in DOMAIN frame :
                      \A j \in DOMAIN frame : j > i => Key(frame[j]) # Key(frame[i])}, 1)

\* ------------------------------------------------------------ time grid

Floor(t, f) == (t \div f) * f

\* pd.date_range(start, end, freq, inclusive)
DateRange(a, b, f, inclusive) ==
    LET n == IF a <= b THEN (b - a) \div f + 1 ELSE 0
        all == [i \in 1..n |-> a + (i - 1) * f]
        dropFirst == inclusive = "right" /\ n > 0
        dropLast == inclusive = "left" /\ n > 0 /\ all[n] = b
        lo == IF dropFirst THEN 2 ELSE 1
        hi == IF dropLast THEN n - 1 ELSE n
    IN SubSeq(all, lo, hi)

\* ------------------------------------------------------------ Gapfinder

\* Gapfinder._build_daterange
BuildDaterange(start, end, f, inclusive) ==
    DateRange(Floor(start, f), Floor(end, f), f, inclusive)

RECURSIVE SortInts(_)
SortInts(ts) ==
    IF Len(ts) <= 1 THEN ts
    ELSE LET front == SortInts(SubSeq(ts, 1, Len(ts) - 1))
             x == ts[Len(ts)]
             n == Cardinality({i \in DOMAIN front : front[i] <= x})
         IN SubSeq(front, 1, n) \o <<x>> \o SubSeq(front, n + 1, Len(front))

RECURSIVE SortedSeq(_)
SortedSeq(S) ==
    IF S = {} THEN <<>>
    ELSE LET x == Min(S) IN <<x>> \o SortedSeq(S \ {x})

RECURSIVE DeriveRuns(_, _, _, _, _)
DeriveRuns(ts, i, gapStart, gapEnd, f) ==
    IF i > Len(ts) THEN << <<gapStart, gapEnd>> >>
    ELSE IF ts[i] = gapEnd + f
         THEN DeriveRuns(ts, i + 1, gapStart, ts[i], f)
         ELSE << <<gapStart, gapEnd>> >> \o DeriveRuns(ts, i + 1, ts[i], ts[i], f)

\* derive_datetime_gaps that closes the run at every instant.
DeriveDatetimeGaps_NeverExtends(timestamps, f) ==
    LET ts == SortInts(timestamps)
    IN [i \in DOMAIN ts |-> <<ts[i], ts[i]>>]

\* derive_datetime_gaps that never closes a run: one gap from the first to the
\* last missing instant.
DeriveDatetimeGaps_OneRun(timestamps, f) ==
    IF timestamps = <<>> THEN <<>>
    ELSE LET ts == SortInts(timestamps)
         IN << <<ts[1], ts[Len(ts)]>> >>

\* Gapfinder.derive_datetime_gaps
DeriveDatetimeGaps(timestamps, f) ==
    IF timestamps = <<>> THEN <<>>
    ELSE LET ts == SortInts(timestamps)
         IN DeriveRuns(ts, 2, ts[1], ts[1], f)

\* Minutes of a day (datetime.timedelta(days = 1)) and of a calendar year of
\* 365 days; minute 0 is the first of January, 00:00, of year 0.
DayMinutes == 1440
YearMinutes == 365 * DayMinutes
YearOf(t) == t \div YearMinutes

\* utils.split_dates, the loop from current_start on
RECURSIVE SplitFrom(_, _, _, _, _)
SplitFrom(currentStart, endDate, f, nDays, splitOnYear) ==
    IF currentStart > endDate THEN <<>>
    ELSE LET potentialEnd == currentStart + nDays * DayMinutes - f
             lastOfYear == (YearOf(currentStart) + 1) * YearMinutes - f
             bound == IF splitOnYear THEN Min({potentialEnd, endDate, lastOfYear})
                      ELSE Min({potentialEnd, endDate})
             currentEnd == IF bound < currentStart THEN currentStart ELSE bound
         IN << <<currentStart, currentEnd>> >>
              \o SplitFrom(currentEnd + f, endDate, f, nDays, splitOnYear)

\* utils.split_dates: the date pairs, or the ValueError
SplitDates(startDate, endDate, f, nDays, splitOnYear) ==
    IF endDate < startDate
    THEN [raised |-> TRUE, pairs |-> <<>>]
    ELSE [raised |-> FALSE, pairs |-> SplitFrom(startDate, endDate, f, nDays, splitOnYear)]

\* coverage >= min_gap_duration
CoverageOk(gap, f) == (gap[2] + f) - gap[1] >= MinGapDuration

\* Gapfinder.find_data_gaps, for zoned start <= end and a valid frequency
\* (the only calls get_data makes); existingDates is the set of instants of
\* the DatetimeIndex handed in.
\* find_data_gaps without the difference against the cached instants: the
\* whole grid counts as missing.
FindDataGaps_IgnoresCache(existingDates, start, end, f, inclusive) ==
    LET completeTs == BuildDaterange(start, end, f, inclusive)
    IN IF completeTs = <<>> THEN <<>>
       ELSE << <<completeTs[1], completeTs[Len(completeTs)]>> >>

FindDataGaps(existingDates, start, end, f, inclusive) ==
    LET completeTs == BuildDaterange(start, end, f, inclusive)
        missingTs == SelectSeq(completeTs, LAMBDA t : t \notin existingDates)
    IN IF completeTs = <<>> THEN <<>>
       ELSE IF existingDates = {} THEN << <<completeTs[1], completeTs[Len(completeTs)]>> >>
       ELSE IF missingTs = <<>> THEN <<>>
       ELSE SelectSeq(DeriveDatetimeGaps(missingTs, f), LAMBDA g : CoverageOk(g, f))

\* Minutes east of UTC of a zone (standard time).
Offset(zone) ==
    CASE zone = "UTC" -> 0
      [] zone = "Europe/Rome" -> 60
      [] zone = "Asia/Kolkata" -> 330
      [] OTHER -> 0

\* tz.localize / tz_localize: the instant of a wall time in a zone.
Localize(wall, zone) == wall - Offset(zone)

\* pd.Timestamp(t).floor(freq) of a zoned timestamp: the wall time is
\* floored, the zone kept.
FloorIn(t, f, zone) == Floor(t + Offset(zone), f) - Offset(zone)

\* to_offset that takes every string for a frequency.
ParseFreq_AcceptsAll(freq) == IF freq = "1h" THEN 60 ELSE 10

\* to_offset(freq): the minutes of a frequency string, 0 when to_offset
\* raises.
ParseFreq(freq) ==
    CASE freq = "10min" -> 10
      [] freq = "1h" -> 60
      [] OTHER -> 0

GfRaised(msg) == [kind |-> "raised", gaps |-> <<>>, error |-> msg]
GfReturned(gaps) == [kind |-> "returned", gaps |-> gaps, error |-> ""]

\* Gapfinder.find_data_gaps from its first line on.  existingKind is what
\* the caller passes as existing_dates ("index" a DatetimeIndex, "series" a
\* datetime Series, "list" a list of strings), existingDates and existingTz
\* its values and its zone ("naive" for none); start and end are instants
\* when zoned and wall times when naive; tz is "none" when not given.
FindDataGapsCall(existingKind, existingDates, existingTz, start, startTz, end, endTz, freq, inclusive, tz) ==
    IF existingKind = "list" THEN GfRaised("Existing dates must be datetime-like")
    ELSE IF existingKind # "index"
    THEN GfRaised("Existing dates must be a pandas DatetimeIndex")
    ELSE IF (startTz = "naive" \/ endTz = "naive") /\ tz = "none"
    THEN GfRaised("Naive start/end datetimes are not allowed without an explicit timezone")
    ELSE IF (startTz = "naive") # (endTz = "naive")
    THEN GfRaised("Cannot localize tz-aware Timestamp")
    ELSE LET zone == IF startTz = "naive" THEN tz ELSE startTz
             s == IF startTz = "naive" THEN Localize(start, tz) ELSE start
             e == IF endTz = "naive" THEN Localize(end, tz) ELSE end
             f == ParseFreq(freq)
             shift == Offset(zone)
             completeTs == [i \in DOMAIN BuildDaterange(s + shift, e + shift, f, inclusive) |->
                               BuildDaterange(s + shift, e + shift, f, inclusive)[i] - shift]
             instants == IF existingTz = "naive"
                         THEN {Localize(t, tz) : t \in existingDates}
                         ELSE existingDates
         IN IF startTz # "naive" /\ startTz # endTz
            THEN GfRaised("start and end must be in the same timezone")
            ELSE IF e < s THEN GfRaised("end must be >= start")
            ELSE IF f = 0 THEN GfReturned(<< <<s, e>> >>)
            ELSE IF completeTs = <<>> THEN GfReturned(<<>>)
            ELSE IF existingDates = {}
            THEN GfReturned(<< <<completeTs[1], completeTs[Len(completeTs)]>> >>)
            ELSE IF existingTz = "naive" /\ tz = "none" THEN GfReturned(<< <<s, e>> >>)
            ELSE GfReturned([i \in DOMAIN FindDataGaps({t + shift : t \in instants},
                                                        s + shift, e + shift, f, inclusive) |->
                               LET g == FindDataGaps({t + shift : t \in instants},
                                                     s + shift, e + shift, f, inclusive)[i]
                               IN <<g[1] - shift, g[2] - shift>>])

\* ------------------------------------------------------------- MeteoDB

\* The measurements relation is a set of rows; the UNIQUE constraint of the
\* measurements table holds one value per (station, variable, instant), so
\* two rows of one station never share an instant.
StoreKey(row) == <<row.station_id, row.datetime>>

RECURSIVE FrameOf(_)
FrameOf(rows) ==
    IF rows = {} THEN <<>>
    ELSE LET first == CHOOSE r \in rows :
                        \A q \in rows : RowRank(r, "index") <= RowRank(q, "index")
         IN <<first>> \o FrameOf(rows \ {first})

\* MeteoDB.query_data: the rows of the station with start <= datetime <= end,
\* pivoted to one row per instant (rows whose values are all NULL included).
QueryData(st, stationId, start, end) ==
    FrameOf({r \in st : r.station_id = stationId
                        /\ start <= r.datetime /\ r.datetime <= end})

\* The unique constraint of the measurements table refuses the batch: a key
\* occurs twice in it, or the table holds it already.
Collides(st, data) ==
    \/ \E i, j \in DOMAIN data : i # j /\ StoreKey(data[i]) = StoreKey(data[j])
    \/ \E i \in DOMAIN data : \E r \in st : StoreKey(r) = StoreKey(data[i])

\* MeteoDB.insert_data whose failed batch takes the stored rows of its keys
\* with it.
InsertData_CollisionDeletes(st, data) ==
    IF data = <<>> THEN st
    ELSE IF Collides(st, data)
    THEN {r \in st : \A i \in DOMAIN data : StoreKey(data[i]) # StoreKey(r)}
    ELSE st \cup Range(data)

\* MeteoDB.insert_data: the frame is melted and appended in one to_sql call;
\* a row that collides with the UNIQUE constraint fails the whole call, which
\* is logged and leaves the relation as it was.
InsertData(st, data) ==
    IF data = <<>> THEN st
    ELSE IF Collides(st, data) THEN st
    ELSE st \cup Range(data)


\* --------------------------------------------------------- QueryManager

\* QueryManager._validate_query_times; a zone of "naive" stands for a
\* datetime without tzinfo
ValidateQueryTimes(start, end, nowT, startTz, endTz) ==
    IF startTz = "naive" THEN "start_time must be timezone-aware"
    ELSE IF endTz = "naive" THEN "end_time must be timezone-aware"
    ELSE IF startTz # endTz THEN "start_time and end_time must have the same timezone"
    ELSE IF start > end THEN "start_time must be before end_time"
    ELSE IF start > nowT THEN "start_time must be in the past"
    ELSE "ok"

\* get_data: models = str_to_list(models); more than one is refused
CheckModels_AllowsMany(models) == "ok"

CheckModels(models) ==
    IF Len(models) > 1 THEN "Only a single model is supported for now" ELSE "ok"

\* QueryManager._round_range_to_freq
RoundRangeToFreq(start, end, f, nowT) ==
    LET startRound == Floor(start, f)
        endRound == Floor(end, f)
        nowFloor == Floor(nowT, f)
    IN <<startRound, IF endRound > nowFloor THEN nowFloor ELSE endRound>>

\* get_data: all_variables, the columns of the cached frame other than
\* station_id and datetime (none when the cached frame is empty)
AllVariables(existingData) ==
    IF existingData = <<>> THEN {} ELSE Columns \ {"station_id", "datetime"}

\* _create_fetch_task that extends every gap of a left- or right-inclusive
\* adapter, whatever its place in the list.
ProviderBounds_ExtendsAll(startGap, endGap, isFirst, isLast, inclusive, f) ==
    << IF inclusive = "right" THEN startGap - f ELSE startGap,
       IF inclusive = "left" THEN endGap + f ELSE endGap >>

\* _create_fetch_task: the bounds handed to provider_handler.run
ProviderBounds(startGap, endGap, isFirst, isLast, inclusive, f) ==
    << IF inclusive = "right" /\ isFirst THEN startGap - f ELSE startGap,
       IF inclusive = "left" /\ isLast THEN endGap + f ELSE endGap >>

\* _fetch_missing_data: the placeholder frame of one model; every column of
\* all_variables is then set to NA
Placeholder(gapIndex, stationId, model, allVariables) ==
    [i \in DOMAIN gapIndex |->
        [datetime |-> gapIndex[i],
         station_id |-> stationId,
         model |-> IF "model" \in allVariables THEN NA ELSE model,
         tair_2m |-> NA]]

\* utils.reindex_group(group, freq): the rows of one (station_id, model) group
\* on the grid from the group's first to its last instant, missing ones NA
ReindexGroup(group, f) ==
    LET dts == {group[i].datetime : i \in DOMAIN group}
        idx == DateRange(Min(dts), Max(dts), f, "both")
    IN [i \in DOMAIN idx |->
          IF idx[i] \in dts
          THEN group[CHOOSE j \in DOMAIN group : group[j].datetime = idx[i]]
          ELSE [datetime |-> idx[i], station_id |-> group[1].station_id,
                model |-> group[1].model, tair_2m |-> NA]]

GroupKey(row) == <<row.station_id, row.model>>

\* groupby(level = ['station_id', 'model'], sort = False).apply(reindex_group)
ReindexFrame(frame, f) ==
    LET firsts == KeepIdx(frame, {i \in DOMAIN frame :
                     \A j \in DOMAIN frame : j < i => GroupKey(frame[j]) # GroupKey(frame[i])}, 1)
    IN Concat([k \in DOMAIN firsts |->
                 ReindexGroup(SelectSeq(frame, LAMBDA r : GroupKey(r) = GroupKey(firsts[k])), f)])

\* _fetch_missing_data, one round of the as_completed loop: the frame that a
\* completed task adds to all_data.  task.data is the frame of the provider,
\* <<>> when the task returned None or an empty frame; models is <<>> for None.
ProcessTask(task, stationId, allVariables, models, f) ==
    LET gapIndex == DateRange(task.startGap, task.endGap, f, "both")
        modelList == IF models = <<>> THEN <<"">> ELSE models
    IN IF task.data = <<>>
       THEN IF allVariables # {} /\ Len(gapIndex) > 0
            THEN Concat([m \in DOMAIN modelList |->
                           Placeholder(gapIndex, stationId, modelList[m], allVariables)])
            ELSE <<>>
       ELSE ReindexFrame(DropDuplicatesFirst(task.data), f)

\* _fetch_missing_data: new_data from the tasks in their order of completion
FetchedData(done, stationId, allVariables, models, f) ==
    SortFrame(Concat([k \in DOMAIN done |->
                        ProcessTask(done[k], stationId, allVariables, models, f)]),
              "datetime")

\* QueryManager._combine_existing_and_new
\* _combine_existing_and_new with duplicated(keep='first'): the cached row of
\* a key survives.
CombineExistingAndNew_KeepFirst(existingData, newData) ==
    LET newIndexed == SortFrame(newData, "index")
    IN IF existingData = <<>> THEN newIndexed
       ELSE DropDuplicatesFirst(SortFrame(existingData, "index") \o newIndexed)

\* _combine_existing_and_new that returns the new rows alone.
CombineExistingAndNew_DropsCache(existingData, newData) ==
    SortFrame(newData, "index")

CombineExistingAndNew(existingData, newData) ==
    LET newIndexed == SortFrame(newData, "index")
    IN IF existingData = <<>> THEN newIndexed
       ELSE DropDuplicatesLast(SortFrame(existingData, "index") \o newIndexed)

\* The zones in which the datetime index of get_data's frame is expressed.
\* query_data hands the cached rows over in UTC (get_data calls it with the
\* rounded UTC bounds).  Without new rows get_data converts the index of the
\* cached frame to the zone of start_time; _combine_existing_and_new converts
\* the datetime column of the new rows alone and concatenates.
IndexZones(existingData, newData, origTz) ==
    IF newData = <<>>
    THEN IF existingData = <<>> THEN {} ELSE {origTz}
    ELSE IF existingData = <<>> THEN {origTz} ELSE {"UTC", origTz}

\* get_data after the gap fetches: <<combined, pending>>
GetDataResult(existingData, done, stationId, models, f) ==
    LET newData == FetchedData(done, stationId, AllVariables(existingData), models, f)
    IN IF newData = <<>> THEN <<existingData, <<>>>>
       ELSE <<CombineExistingAndNew(existingData, newData), newData>>


\* ------------------------------------------------------------ environment

FetchVals == {"v1", "v2"}

\* The instants a store or a provider answer may speak about.
Instants(f) == {k * f : k \in 0..MaxSteps}

\* The clock while the model runs: just past the last grid instant.
NowOf(f) == MaxSteps * f + 5

\* The model tag of the rows an adapter returns: ProvinceMeteo has
\* observations only; OpenMeteo tags its rows with the one model queried.
ProviderModel(ad, models) ==
    IF ad.name = "province" \/ models = <<>> THEN ad.defmodel ELSE models[1]

RowsOn(dts, stationId, model, val) ==
    LET idx == SortedSeq(dts)
    IN [i \in DOMAIN idx |->
          [datetime |-> idx[i], station_id |-> stationId, model |-> model, tair_2m |-> val]]

\* What provider_handler.run may come back with for the bounds [sx, ex]:
\* an exception ("fail"), None or an empty frame ("none"), or validated rows.
\* A provider that answers whole days returns rows outside the bounds, one
\* with missing samples returns fewer.  A forecast provider has rows for
\* instants after the clock, an observational one has not.
Answers(mode, sx, ex, ad, stationId, model) ==
    LET f == ad.freq
        known == IF ad.canForecast THEN Instants(f) \cup {(MaxSteps + 1) * f} ELSE Instants(f)
        los == IF mode = "single" THEN {sx - k * f : k \in 0..Slack} \cup {sx + f}
               ELSE IF mode = "seq" THEN {sx - Slack * f, sx}
               ELSE {sx}
        his == IF mode = "single" THEN {ex + k * f : k \in 0..Slack} \cup {ex - f}
               ELSE IF mode = "seq" THEN {ex + Slack * f, ex}
               ELSE {ex}
        vals == IF mode = "single" THEN FetchVals ELSE {"v1"}
        edge == IF mode = "tasks" THEN known \cup {-f, (MaxSteps + 1) * f} ELSE known
        spans == {<<lo, hi>> \in los \X his : lo <= hi /\ {lo, hi} \subseteq edge}
        dense(sp) == {t \in known : /\ sp[1] <= t /\ t <= sp[2]
                                    /\ mode = "tasks" /\ ad.inclusive = "left" => t # sp[2]
                                    /\ mode = "tasks" /\ ad.inclusive = "right" => t # sp[1]}
        sets == {dense(sp) : sp \in spans}
                  \cup (IF mode = "single" THEN {{sp[1], sp[2]} : sp \in spans} ELSE {})
    IN {[kind |-> "fail", data |-> <<>>]}
       \cup (IF mode \in {"tasks", "live"} THEN {} ELSE {[kind |-> "none", data |-> <<>>]})
       \cup {[kind |-> "rows", data |-> RowsOn(dts, stationId, model, v)] :
               dts \in sets, v \in vals}

\* Contents the measurement store may have when the service starts: nothing,
\* one cached stretch, or everything but one stretch.
StoreMenu(mode, ad) ==
    LET stretch(a, b) == {k * ad.freq : k \in a..b}
        rowsOf(dts) == {[datetime |-> t, station_id |-> Station,
                         model |-> ad.defmodel, tair_2m |-> "old"] : t \in dts}
        all == {{}} \cup {stretch(a, b) : a \in 0..MaxSteps, b \in 0..MaxSteps}
                    \cup {Instants(ad.freq) \ stretch(a, b) : a \in 0..MaxSteps, b \in 0..MaxSteps}
    IN {rowsOf(dts) : dts \in IF mode = "conc" THEN {d \in all : Cardinality(d) <= 1}
                              ELSE IF mode = "store" THEN {{}, {0}, {2 * ad.freq}}
                              ELSE IF mode \in {"gap", "adapter", "helpers", "stations"} THEN {{}}
                              ELSE IF mode = "tasks" THEN {{}, {2 * ad.freq}}
                              ELSE IF mode = "live" THEN {{2 * ad.freq}}
                              ELSE all}

\* The frames a caller hands to insert_data: pending frames of get_data calls
\* over the first grid instants (value rows, marker rows, a frame that has a
\* key twice) and the empty frame.
FrameMenu(ad) ==
    LET f == ad.freq
        rows(dts, v) == RowsOn(dts, Station, ad.defmodel, v)
    IN {<<>>}
       \cup {rows(dts, v) : dts \in {{0}, {0, f}, {f, 2 * f}}, v \in FetchVals}
       \cup {Placeholder(<<0, f>>, Station, "", {"model", "tair_2m"})}
       \cup {rows({0}, "v1") \o rows({0}, "v2")}

\* The (start, end) pairs a caller passes, in minutes; some lie off the grid,
\* reach past the clock, or are the wrong way round.
RangeMenu(mode, f) ==
    IF mode = "single"
    THEN {<<a * f + o, b * f + o>> :
             a \in {0, 1}, b \in {1, MaxSteps - 1, MaxSteps, MaxSteps + 1}, o \in {0, 5}}
         \cup {<<f, 0>>, <<(MaxSteps + 1) * f, (MaxSteps + 1) * f>>}
    ELSE IF mode = "seq"
    THEN {<<a * f, b * f>> : a \in {0, 1, 3}, b \in {MaxSteps - 1, MaxSteps}}
    ELSE IF mode = "tasks"
    THEN {<<a * f, MaxSteps * f>> : a \in {0, 1}}
    ELSE IF mode = "live"
    THEN {<<0, MaxSteps * f>>}
    ELSE {<<a * f, b * f>> : a \in {0, 1}, b \in {MaxSteps - 1, MaxSteps}}

ModelsMenu(mode) ==
    IF mode = "single" THEN {<<>>, <<"m1">>, <<"m1", "m2">>} ELSE {<<>>}

\* The zones of start_time and end_time: "naive" for no tzinfo.
ZoneMenu(mode) ==
    IF mode = "single"
    THEN {<<"UTC", "UTC">>, <<"naive", "UTC">>, <<"UTC", "naive">>, <<"UTC", "Europe/Rome">>}
    ELSE {<<"UTC", "UTC">>}


\* ------------------------------------------------------------------ state

VARIABLES
    mode,           \* which scenario runs
    adapter,        \* the provider adapter every request uses
    store,          \* the measurements relation
    client,         \* adapter._client: 0 for None, else the id of a client
    nClients,       \* HTTP clients the adapter has created so far
    closedClients,  \* ids of the clients that were closed
    qmSem,          \* free tokens of QueryManager._semaphore
    adSem,          \* free tokens of the adapter's _semaphore
    calls,          \* get_data calls started so far
    req,            \* per get_data call: its position and its locals
    hist,           \* the last get_data call whose pending frame was inserted
    stations,       \* external ids of the rows of the stations table
    wr,             \* per caller of insert_data: its position and its locals
    gf,             \* the last find_data_gaps call: its arguments and its outcome
    handler,        \* the adapter's token count and its station caches
    rn,             \* per direct caller of the adapter: its scope and its run call
    fn              \* the last call of split_dates or derive_datetime_gaps

vars == <<mode, adapter, store, client, nClients, closedClients, qmSem, adSem,
          calls, req, hist, stations, wr, gf, handler, rn, fn>>

\* Direct callers of the adapter, request tasks of one run call (chunks
\* times sensors), run calls of one caller, clients the adapter ever makes.
MaxRunners == 2
TasksPerRun == 2
MaxRuns == 2
MaxClients == 2
Runners == 1..MaxRunners
StationIds == {"S1", "S2"}

\* max_concurrent_requests as the configuration of a provider gives it.
MaxConcurrentMenu == {1, 2}

IdleRunner ==
    [pc |-> "idle", inScope |-> FALSE, station |-> "S1", n |-> 0,
     phase |-> <<>>, used |-> <<>>, outcome |-> "", sent |-> 0,
     openAtStart |-> FALSE, clientsAtStart |-> 0, metaClient |-> 0,
     value |-> <<>>, failed |-> 0]

\* Callers of insert_data that may overlap, and insert_data calls each makes.
MaxWriters == 2
MaxInserts == 2
Writers == 1..MaxWriters

IdleGf ==
    [pc |-> "idle", existingKind |-> "index", existingDates |-> {}, existingTz |-> "UTC",
     start |-> 0, startTz |-> "UTC", end |-> 0, endTz |-> "UTC", freq |-> "10min",
     inclusive |-> "both", tz |-> "none", out |-> GfReturned(<<>>)]

IdleFn == [pc |-> "idle", name |-> "", args |-> <<>>, out |-> <<>>]

IdleWriter ==
    [pc |-> "idle", df |-> <<>>, n |-> 0, outcome |-> "", raised |-> FALSE,
     before |-> {}, after |-> {}, prevDf |-> <<>>, prevOutcome |-> "", prevAfter |-> {}]

\* get_data calls a run may start: one in "single", MaxCalls otherwise.
MaxCalls == 2

IdleReq ==
    [pc |-> "idle", start |-> 0, end |-> 0, startTz |-> "UTC", endTz |-> "UTC",
     models |-> <<>>, reads |-> 0,
     startRound |-> 0, endRound |-> 0, existing |-> <<>>, gaps |-> <<>>,
     phase |-> <<>>, used |-> <<>>, done |-> <<>>,
     combined |-> <<>>, pending |-> <<>>, error |-> "",
     enters |-> 0, runs |-> 0, onClosed |-> FALSE, delegated |-> FALSE,
     scopeClient |-> 0, indexTz |-> {},
     qStart |-> 0, qEnd |-> 0, qStartTz |-> "UTC", qEndTz |-> "UTC", qTz |-> "none",
     tzName |-> "UTC", latest |-> FALSE, records |-> <<>>,
     runArgs |-> <<>>, lateSteps |-> 0, lateCalls |-> 0]

NoHist == [valid |-> FALSE, startRound |-> 0, endRound |-> 0, pending |-> <<>>]

Active == IF mode \in {"conc", "tasks", "live"} THEN Reqs ELSE {1}
CallBudget == IF mode = "single" THEN 1 ELSE MaxCalls

InitWith(m) ==
    /\ mode = m
    /\ adapter \in IF m = "tasks" THEN TaskAdapters
                   ELSE IF m = "live" THEN {a \in TaskAdapters : a.inclusive = "both"}
                   ELSE Adapters
    /\ store \in StoreMenu(m, adapter)
    /\ client = 0
    /\ nClients = 0
    /\ closedClients = {}
    /\ qmSem = QmMaxConcurrent
    /\ adSem \in IF m = "adapter" THEN MaxConcurrentMenu
                 ELSE IF m \in {"tasks", "live"} THEN {1}
                 ELSE {AdapterMaxConcurrent}
    /\ calls = 0
    /\ req = [r \in Reqs |-> IdleReq]
    /\ hist = NoHist
    /\ stations \in IF store # {} THEN {{Station}}
                    ELSE IF m = "store" THEN {{}, {Station}}
                    ELSE {{}}
    /\ wr = [w \in Writers |-> IdleWriter]
    /\ gf = IdleGf
    /\ handler = [max |-> adSem, stationInfo |-> FALSE, stationSensors |-> {},
                  infoLock |-> FALSE, sensorLocks |-> {}]
    /\ rn = [k \in Runners |-> IdleRunner]
    /\ fn = IdleFn

Init == InitWith("single")

\* ---------------------------------------------------------------- actions

\* get_data up to its first suspension: the argument checks, the rounding,
\* the cache read, the gap search and, when there are gaps, the entry into
\* the adapter's scope (__aenter__ makes a new client) and the creation of
\* one task per gap with start_gap < end_gap.
GetDataEnter(r, rg, models, zones, asked) ==
        LET f == adapter.freq
            nowT == NowOf(f)
            check == ValidateQueryTimes(rg[1], rg[2], nowT, zones[1], zones[2])
            rounded == RoundRangeToFreq(rg[1], rg[2], f, nowT)
            existingData == QueryData(store, Station, rounded[1], rounded[2])
            dtIndex == {existingData[i].datetime : i \in DOMAIN existingData}
            found == FindDataGaps(dtIndex, rounded[1], rounded[2], f, "both")
            base == [asked EXCEPT !.start = rg[1], !.end = rg[2], !.models = models,
                                    !.startTz = zones[1], !.endTz = zones[2],
                                    !.delegated = TRUE]
            ranged == [base EXCEPT !.startRound = rounded[1], !.endRound = rounded[2]]
            cached == [ranged EXCEPT !.reads = 1, !.existing = existingData]
        IN IF check # "ok"
           THEN /\ req' = [req EXCEPT ![r] = [base EXCEPT !.pc = "raised", !.error = check]]
                /\ UNCHANGED <<client, nClients>>
           ELSE IF CheckModels(models) # "ok"
           THEN /\ req' = [req EXCEPT ![r] = [base EXCEPT !.pc = "raised",
                                                          !.error = CheckModels(models)]]
                /\ UNCHANGED <<client, nClients>>
           ELSE IF rounded[1] >= rounded[2]
           THEN /\ req' = [req EXCEPT ![r] = [ranged EXCEPT !.pc = "done"]]
                /\ UNCHANGED <<client, nClients>>
           ELSE IF found = <<>>
           THEN /\ req' = [req EXCEPT ![r] =
                     [cached EXCEPT !.pc = "done",
                                    !.combined = existingData,
                                    !.indexTz = IndexZones(existingData, <<>>, zones[1])]]
                /\ UNCHANGED <<client, nClients>>
           ELSE /\ req' = [req EXCEPT ![r] =
                     [cached EXCEPT !.pc = "fetch",
                                    !.gaps = found,
                                    !.phase = [i \in DOMAIN found |->
                                                 IF found[i][1] >= found[i][2]
                                                 THEN "skipped" ELSE "new"],
                                    !.used = [i \in DOMAIN found |-> 0],
                                    !.runArgs = [i \in DOMAIN found |-> <<>>],
                                    !.enters = 1,
                                    !.scopeClient = nClients + 1]]
                /\ nClients' = nClients + 1
                /\ client' = nClients + 1

\* A caller calls get_data with a range, a list of models and the zones of
\* the two datetimes.
GetDataBegin(r) ==
    /\ mode # "wf"
    /\ r \in Active
    /\ req[r].pc = "idle"
    /\ calls < CallBudget
    /\ calls' = calls + 1
    /\ \E rg \in RangeMenu(mode, adapter.freq), models \in ModelsMenu(mode),
          zones \in ZoneMenu(mode) : GetDataEnter(r, rg, models, zones, IdleReq)
    /\ UNCHANGED <<mode, adapter, store, closedClients, qmSem, adSem, hist, stations, wr, gf, handler, rn, fn>>

\* 1 when the get_data call that made the task was cancelled, else 0
AfterCancel(r) == IF req[r].pc = "cancelled" THEN 1 ELSE 0

\* The exit of 'async with semaphore' that loses the token.
ReleaseToken_Leaks(sem) == sem

\* The exit of 'async with semaphore': the token goes back, whether the body
\* returned or raised.
ReleaseToken(sem) == sem + 1

\* _create_fetch_task: the task of gap i takes a token of the query manager
TaskAcquire(r, i) ==
    /\ req[r].pc \in {"fetch", "cancelled"}
    /\ i \in DOMAIN req[r].phase
    /\ req[r].phase[i] = "new"
    /\ qmSem > 0
    /\ qmSem' = qmSem - 1
    /\ req' = [req EXCEPT ![r].phase[i] = "held",
                          ![r].lateSteps = @ + AfterCancel(r)]
    /\ UNCHANGED <<mode, adapter, store, client, nClients, closedClients, adSem, calls, hist, stations, wr, gf, handler, rn, fn>>

\* provider_handler.run: the upstream request goes out on adapter._client,
\* under a token of the adapter
TaskCall(r, i) ==
    /\ req[r].pc \in {"fetch", "cancelled"}
    /\ i \in DOMAIN req[r].phase
    /\ req[r].phase[i] = "held"
    /\ adSem > 0
    /\ adSem' = adSem - 1
    /\ req' = [req EXCEPT ![r].phase[i] = "inflight",
                          ![r].used[i] = client,
                          ![r].runArgs[i] = ProviderBounds(req[r].gaps[i][1], req[r].gaps[i][2],
                                                           i = 1, i = Len(req[r].gaps),
                                                           adapter.inclusive, adapter.freq),
                          ![r].runs = @ + 1,
                          ![r].onClosed = @ \/ client \in closedClients,
                          ![r].lateSteps = @ + AfterCancel(r),
                          ![r].lateCalls = IF client \in closedClients THEN @
                                           ELSE @ + AfterCancel(r)]
    /\ UNCHANGED <<mode, adapter, store, client, nClients, closedClients, qmSem, calls, hist, stations, wr, gf, handler, rn, fn>>

\* The upstream answer arrives and the task returns (provider_data,
\* start_gap, end_gap); both tokens go back.  A request on a closed client
\* raises inside the adapter's request task, which logs it and returns None.
TaskReturn(r, i) ==
    /\ req[r].pc \in {"fetch", "cancelled"}
    /\ i \in DOMAIN req[r].phase
    /\ req[r].phase[i] = "inflight"
    /\ LET gap == req[r].gaps[i]
           bounds == req[r].runArgs[i]
           menu == IF req[r].used[i] \in closedClients
                   THEN {[kind |-> "none", data |-> <<>>]}
                   ELSE Answers(mode, bounds[1], bounds[2], adapter, Station,
                                ProviderModel(adapter, req[r].models))
       IN \E ans \in menu :
            req' = [req EXCEPT ![r].phase[i] = "returned",
                               ![r].done = Append(@, [kind |-> ans.kind, data |-> ans.data,
                                                       startGap |-> gap[1], endGap |-> gap[2]]),
                               ![r].lateSteps = @ + AfterCancel(r)]
    /\ qmSem' = ReleaseToken(qmSem)
    /\ adSem' = ReleaseToken(adSem)
    /\ UNCHANGED <<mode, adapter, store, client, nClients, closedClients, calls, hist, stations, wr, gf, handler, rn, fn>>

\* A get_data that inserts the fetched rows itself before it returns.
GetDataFinish_Persists(r) ==
    /\ req[r].pc = "fetch"
    /\ \A i \in DOMAIN req[r].phase : req[r].phase[i] \in {"skipped", "returned"}
    /\ closedClients' = IF client # 0 THEN closedClients \cup {client} ELSE closedClients
    /\ LET res == GetDataResult(req[r].existing, req[r].done, Station,
                                req[r].models, adapter.freq)
       IN /\ req' = [req EXCEPT ![r].pc = "done", ![r].combined = res[1], ![r].pending = res[2],
                                ![r].indexTz = IndexZones(req[r].existing, res[2], req[r].startTz)]
          /\ store' = InsertData(store, res[2])
    /\ UNCHANGED <<mode, adapter, client, nClients, qmSem, adSem, calls, hist, stations, wr, gf, handler, rn, fn>>

\* Every task is back: __aexit__ closes adapter._client, and get_data merges
\* and returns (combined, pending).
GetDataFinish(r) ==
    /\ req[r].pc = "fetch"
    /\ \A i \in DOMAIN req[r].phase : req[r].phase[i] \in {"skipped", "returned"}
    /\ closedClients' = IF client # 0 THEN closedClients \cup {client} ELSE closedClients
    /\ LET res == GetDataResult(req[r].existing, req[r].done, Station,
                                req[r].models, adapter.freq)
       IN req' = [req EXCEPT ![r].pc = "done", ![r].combined = res[1], ![r].pending = res[2],
                             ![r].indexTz = IndexZones(req[r].existing, res[2], req[r].startTz)]
    /\ UNCHANGED <<mode, adapter, store, client, nClients, qmSem, adSem, calls, hist, stations, wr, gf, handler, rn, fn>>

\* The caller inserts the pending frame (workflow callers do so when it is
\* not empty) and the call is over.  insert_data first registers the station
\* when the stations table lacks it, reading its metadata inside a scope of
\* the adapter of its own.
Persist(r) ==
    /\ mode # "wf"
    /\ req[r].pc = "done"
    /\ req[r].pending # <<>>
    /\ store' = InsertData(store, req[r].pending)
    /\ stations' = stations \cup {Station}
    /\ IF Station \in stations
       THEN UNCHANGED <<client, nClients, closedClients>>
       ELSE /\ nClients' = nClients + 1
            /\ client' = nClients + 1
            /\ closedClients' = closedClients \cup {nClients + 1}
    /\ hist' = [valid |-> TRUE, startRound |-> req[r].startRound,
                endRound |-> req[r].endRound, pending |-> req[r].pending]
    /\ req' = [req EXCEPT ![r] = IdleReq]
    /\ UNCHANGED <<mode, adapter, qmSem, adSem, calls, wr, gf, handler, rn, fn>>

\* The call is over and nothing is inserted (an error, an empty pending
\* frame, or a provider whose data is not cached).
Release(r) ==
    /\ mode # "wf"
    /\ req[r].pc \in {"done", "raised"}
    /\ req' = [req EXCEPT ![r] = IdleReq]
    /\ UNCHANGED <<mode, adapter, store, client, nClients, closedClients, qmSem, adSem,
                   calls, hist, stations, wr, gf, handler, rn, fn>>

Next ==
    \E r \in Reqs :
        \/ GetDataBegin(r)
        \/ \E i \in 1..(MaxSteps + 1) : TaskAcquire(r, i) \/ TaskCall(r, i) \/ TaskReturn(r, i)
        \/ GetDataFinish(r)
        \/ Persist(r)
        \/ Release(r)

Spec == Init /\ [][Next]_vars

\* The task that runs get_data is cancelled while it waits in the
\* as_completed loop: CancelledError is no Exception, so it passes the except
\* clause of the loop and leaves the scope of the adapter, whose __aexit__
\* closes adapter._client.  The tasks made with create_task are not awaited
\* any more and nothing cancels them.
Cancel(r) ==
    /\ mode = "tasks"
    /\ req[r].pc = "fetch"
    /\ \E i \in DOMAIN req[r].phase : req[r].phase[i] \in {"new", "held", "inflight"}
    /\ closedClients' = IF client # 0 THEN closedClients \cup {client} ELSE closedClients
    /\ req' = [req EXCEPT ![r].pc = "cancelled"]
    /\ UNCHANGED <<mode, adapter, store, client, nClients, qmSem, adSem, calls, hist,
                   stations, wr, gf, handler, rn, fn>>

\* The last task of a cancelled call has ended.
CancelOver(r) ==
    /\ mode = "tasks"
    /\ req[r].pc = "cancelled"
    /\ \A i \in DOMAIN req[r].phase : req[r].phase[i] \in {"skipped", "returned"}
    /\ req' = [req EXCEPT ![r] = IdleReq]
    /\ UNCHANGED <<mode, adapter, store, client, nClients, closedClients, qmSem, adSem,
                   calls, hist, stations, wr, gf, handler, rn, fn>>

TaskStep(r) ==
    \E i \in 1..(MaxSteps + 1) : TaskAcquire(r, i) \/ TaskCall(r, i) \/ TaskReturn(r, i)

NextTasks ==
    \E r \in Reqs :
        \/ GetDataBegin(r)
        \/ TaskStep(r)
        \/ GetDataFinish(r)
        \/ Release(r)
        \/ Cancel(r)
        \/ CancelOver(r)

\* Overlapping get_data calls on an adapter of any inclusive convention, with
\* cancellation.
InitTasks == InitWith("tasks")
SpecTasks == InitTasks /\ [][NextTasks]_vars

NextLive ==
    \E r \in Reqs :
        \/ GetDataBegin(r)
        \/ TaskStep(r)
        \/ GetDataFinish(r)
        \/ Release(r)

\* Two overlapping get_data calls of two gaps each.  The event loop runs every
\* task that can run, and every upstream call returns or fails.
InitLive == InitWith("live")
SpecLive ==
    /\ InitLive
    /\ [][NextLive]_vars
    /\ \A r \in Reqs : WF_vars(TaskStep(r))

\* Two get_data calls that share the adapter and overlap in time.
InitConc == InitWith("conc")
SpecConc == InitConc /\ [][Next]_vars

\* get_data calls one after the other, the pending frame of one inserted
\* before the next starts.
InitSeq == InitWith("seq")
SpecSeq == InitSeq /\ [][Next]_vars

\* ------------------------------------------------------------ workflow

\* A datetime the query leaves out.
None == -1

\* The window an adapter puts in place of a missing start or end
\* (latest_window_minutes, forecast_window_minutes).
WindowMinutes(ad) == 2 * ad.freq

PastOnlyError == "Start time must be in the past for non-forecast providers"

\* validation.DEFAULT_TIMEZONE, and the default_timezone of the runtime
DEFAULT_TIMEZONE == "UTC"
RuntimeDefaultTimezone == "Europe/Rome"

\* The fields of TimeseriesQuery in their order of declaration.  A field
\* validator finds in info.data the fields that were validated before its own.
QueryFields == <<"provider", "start_time", "end_time", "station_id", "variables", "timezone">>

InfoData(field) ==
    LET pos == CHOOSE i \in DOMAIN QueryFields : QueryFields[i] = field
    IN {QueryFields[i] : i \in 1..(pos - 1)}

\* TimeseriesQuery.ensure_timezone_aware on one bound: <<value, zone>>.  A
\* naive value is a wall time; a zoned value is an instant with its zone.
EnsureTimezoneAware(field, v, vTz, timezone) ==
    IF v = None THEN <<None, vTz>>
    ELSE IF vTz = "naive"
         THEN LET tzName == IF "timezone" \in InfoData(field) THEN timezone
                            ELSE DEFAULT_TIMEZONE
              IN <<Localize(v, tzName), tzName>>
         ELSE <<v, vTz>>

\* QueryWorkflow._get_timezone_for_query; timezone is "none" when not given
GetTimezoneForQuery(start, startTz, end, endTz, timezone) ==
    IF start # None /\ startTz # "naive" THEN startTz
    ELSE IF end # None /\ endTz # "naive" THEN endTz
    ELSE IF timezone # "none" THEN timezone
    ELSE RuntimeDefaultTimezone

\* TimeseriesResponse.from_dataframe: the records of the response
FromDataframe(df, latest) ==
    IF df = <<>> THEN <<>>
    ELSE IF latest THEN LET sorted == SortFrame(df, "index") IN <<sorted[Len(sorted)]>>
    ELSE df

\* The start_time and end_time of a TimeseriesQuery.
QueryMenu(f) ==
    {<<qs, qe>> : qs \in {None, 0, f, (MaxSteps + 1) * f},
                 qe \in {None, MaxSteps * f, (MaxSteps + 2) * f}}

\* The zones of the two bounds as the client wrote them ("naive" for a
\* datetime without offset) and the timezone field ("none" when left out).
QueryZoneMenu ==
    {<<"UTC", "UTC", "none">>, <<"Europe/Rome", "Europe/Rome", "none">>,
     <<"naive", "naive", "none">>, <<"naive", "naive", "Europe/Rome">>,
     <<"UTC", "UTC", "Europe/Rome">>}

\* run_timeseries_query up to the first suspension of get_data: the
\* validation of the bounds, the zone of the query, the localisation of naive
\* bounds, the future start check, the defaults for a missing end and a
\* missing start, the range check, and the call of get_data with the
\* resulting range.
RunTimeseriesQuery(r) ==
    /\ mode = "wf"
    /\ r \in Active
    /\ req[r].pc = "idle"
    /\ calls < CallBudget
    /\ calls' = calls + 1
    /\ \E q \in QueryMenu(adapter.freq), zq \in QueryZoneMenu,
          models \in {<<>>, <<"m1">>}, latest \in BOOLEAN :
        LET nowT == NowOf(adapter.freq)
            vs == EnsureTimezoneAware("start_time", q[1], zq[1], zq[3])
            ve == EnsureTimezoneAware("end_time", q[2], zq[2], zq[3])
            tzName == GetTimezoneForQuery(vs[1], vs[2], ve[1], ve[2], zq[3])
            s0 == IF vs[1] # None /\ vs[2] = "naive"
                  THEN <<Localize(vs[1], tzName), tzName>> ELSE vs
            e0 == IF ve[1] # None /\ ve[2] = "naive"
                  THEN <<Localize(ve[1], tzName), tzName>> ELSE ve
            futureStart == s0[1] # None /\ s0[1] > nowT
            endTime == IF e0[1] # None THEN e0
                       ELSE IF futureStart /\ adapter.canForecast
                            THEN <<s0[1] + WindowMinutes(adapter), s0[2]>>
                            ELSE <<nowT, tzName>>
            startTime == IF s0[1] # None THEN s0
                         ELSE <<endTime[1] - WindowMinutes(adapter), endTime[2]>>
            asked == [IdleReq EXCEPT !.start = s0[1], !.end = e0[1], !.models = models,
                                     !.qStart = q[1], !.qEnd = q[2],
                                     !.qStartTz = zq[1], !.qEndTz = zq[2], !.qTz = zq[3],
                                     !.tzName = tzName, !.latest = latest]
        IN IF futureStart /\ ~adapter.canForecast
           THEN /\ req' = [req EXCEPT ![r] = [asked EXCEPT !.pc = "raised",
                                                           !.error = PastOnlyError]]
                /\ UNCHANGED <<client, nClients>>
           ELSE IF startTime[1] >= endTime[1]
           THEN /\ req' = [req EXCEPT ![r] =
                            [asked EXCEPT !.pc = "raised",
                                          !.error = "start_time must be before end_time"]]
                /\ UNCHANGED <<client, nClients>>
           ELSE GetDataEnter(r, <<startTime[1], endTime[1]>>, models,
                             <<startTime[2], endTime[2]>>, asked)
    /\ UNCHANGED <<mode, adapter, store, closedClients, qmSem, adSem, hist, stations, wr, gf, handler, rn, fn>>

\* run_timeseries_query after get_data: the station's metadata comes from
\* the stations table or, when the station is not there, from the provider
\* inside a scope of the adapter; the response is built from the frame.
Respond(r) ==
    /\ mode = "wf"
    /\ req[r].pc = "done"
    /\ req' = [req EXCEPT ![r].pc = "answered",
                          ![r].records = FromDataframe(req[r].combined, req[r].latest)]
    /\ IF Station \in stations
       THEN UNCHANGED <<client, nClients, closedClients>>
       ELSE /\ nClients' = nClients + 1
            /\ client' = nClients + 1
            /\ closedClients' = closedClients \cup {nClients + 1}
    /\ UNCHANGED <<mode, adapter, store, qmSem, adSem, calls, hist, stations, wr, gf, handler, rn, fn>>

\* The caller of run_timeseries_query has its response or its exception.
WorkflowOver(r) ==
    /\ mode = "wf"
    /\ req[r].pc \in {"answered", "raised"}
    /\ req' = [req EXCEPT ![r] = IdleReq]
    /\ UNCHANGED <<mode, adapter, store, client, nClients, closedClients, qmSem, adSem,
                   calls, hist, stations, wr, gf, handler, rn, fn>>

NextWf ==
    \E r \in Reqs :
        \/ RunTimeseriesQuery(r)
        \/ \E i \in 1..(MaxSteps + 1) : TaskAcquire(r, i) \/ TaskCall(r, i) \/ TaskReturn(r, i)
        \/ GetDataFinish(r)
        \/ Respond(r)
        \/ WorkflowOver(r)

InitWf == InitWith("wf")
SpecWf == InitWf /\ [][NextWf]_vars

\* ------------------------------------------- direct callers of the adapter

AdFrame == <<mode, adapter, store, qmSem, calls, req, hist, stations, wr, gf, fn>>

\* "async with provider_handler": __aenter__ makes a new client and puts it
\* in place of the adapter's client.
ScopeEnter(k) ==
    /\ mode \in {"adapter", "stations"}
    /\ rn[k].pc = "idle"
    /\ ~rn[k].inScope
    /\ nClients < MaxClients
    /\ nClients' = nClients + 1
    /\ client' = nClients + 1
    /\ rn' = [rn EXCEPT ![k].inScope = TRUE]
    /\ UNCHANGED <<AdFrame, closedClients, adSem, handler>>

\* The end of the "async with" block: __aexit__ closes the adapter's client
\* and leaves it in place.
ScopeExit(k) ==
    /\ rn[k].pc = "idle"
    /\ rn[k].inScope
    /\ closedClients' = IF client # 0 THEN closedClients \cup {client} ELSE closedClients
    /\ rn' = [rn EXCEPT ![k].inScope = FALSE]
    /\ UNCHANGED <<AdFrame, client, nClients, adSem, handler>>

\* The run call is over with an exception or a result.
RunEnds(k, how) == [rn[k] EXCEPT !.pc = "done", !.outcome = how]

\* ProvinceMeteo.get_sensors and what follows it in get_raw_data up to
\* asyncio.gather: cached sensors give the request tasks at once; otherwise
\* the sensors request goes out on the adapter's client, under the lock of
\* the station and under no token.
AfterStations(k, rec) ==
    IF rec.station \in handler.stationSensors
    THEN /\ rn' = [rn EXCEPT ![k] = [rec EXCEPT !.pc = "tasks",
                                                 !.phase = [i \in 1..TasksPerRun |-> "new"],
                                                 !.used = [i \in 1..TasksPerRun |-> 0]]]
         /\ UNCHANGED handler
    ELSE IF rec.station \in handler.sensorLocks
    THEN /\ rn' = [rn EXCEPT ![k] = [rec EXCEPT !.pc = "sensorsWait"]]
         /\ UNCHANGED handler
    ELSE IF client = 0
    THEN /\ rn' = [rn EXCEPT ![k] = [rec EXCEPT !.pc = "done", !.outcome = "notopen"]]
         /\ UNCHANGED handler
    ELSE IF client \in closedClients
    THEN /\ rn' = [rn EXCEPT ![k] = [rec EXCEPT !.pc = "done", !.outcome = "closed"]]
         /\ UNCHANGED handler
    ELSE /\ rn' = [rn EXCEPT ![k] = [rec EXCEPT !.pc = "sensors", !.sent = @ + 1,
                                                 !.metaClient = client]]
         /\ handler' = [handler EXCEPT !.sensorLocks = @ \cup {rec.station}]

\* BaseMeteoHandler.run up to the first suspension of get_raw_data:
\* get_stations answers from the cached station info, or get_station_info
\* sends the stations request under its lock (ValueError without a client,
\* httpx's RuntimeError on a closed one).
RunStart(k) ==
    /\ mode = "adapter"
    /\ rn[k].pc = "idle"
    /\ rn[k].n < MaxRuns
    /\ \E st \in StationIds :
        LET rec == [rn[k] EXCEPT !.station = st, !.n = @ + 1, !.outcome = "", !.sent = 0,
                                 !.phase = <<>>, !.used = <<>>,
                                 !.openAtStart = \E j \in Runners : rn[j].inScope,
                                 !.clientsAtStart = nClients]
        IN IF handler.stationInfo THEN AfterStations(k, rec)
           ELSE IF handler.infoLock
           THEN rn' = [rn EXCEPT ![k] = [rec EXCEPT !.pc = "infoWait"]] /\ UNCHANGED handler
           ELSE IF client = 0
           THEN rn' = [rn EXCEPT ![k] = [rec EXCEPT !.pc = "done", !.outcome = "notopen"]]
                /\ UNCHANGED handler
           ELSE IF client \in closedClients
           THEN rn' = [rn EXCEPT ![k] = [rec EXCEPT !.pc = "done", !.outcome = "closed"]]
                /\ UNCHANGED handler
           ELSE /\ rn' = [rn EXCEPT ![k] = [rec EXCEPT !.pc = "info", !.sent = @ + 1,
                                                        !.metaClient = client]]
                /\ handler' = [handler EXCEPT !.infoLock = TRUE]
    /\ UNCHANGED <<AdFrame, client, nClients, closedClients, adSem>>

\* The stations request is answered: the station info is cached, the lock
\* released, and get_raw_data goes on with the sensors.  A client closed
\* meanwhile makes the request raise.
InfoReturn(k) ==
    /\ rn[k].pc = "info"
    /\ LET got == [handler EXCEPT !.stationInfo = TRUE, !.infoLock = FALSE]
       IN IF rn[k].metaClient \in closedClients
          THEN /\ handler' = [handler EXCEPT !.infoLock = FALSE]
               /\ rn' = [rn EXCEPT ![k] = RunEnds(k, "closed")]
          ELSE IF rn[k].station \in got.stationSensors \/ rn[k].station \in got.sensorLocks
             \/ client \in closedClients
          THEN /\ handler' = got
               /\ rn' = [rn EXCEPT ![k] =
                         IF rn[k].station \in got.stationSensors
                         THEN [rn[k] EXCEPT !.pc = "tasks",
                                            !.phase = [i \in 1..TasksPerRun |-> "new"],
                                            !.used = [i \in 1..TasksPerRun |-> 0]]
                         ELSE IF rn[k].station \in got.sensorLocks
                         THEN [rn[k] EXCEPT !.pc = "sensorsWait"]
                         ELSE RunEnds(k, "closed")]
          ELSE /\ handler' = [got EXCEPT !.sensorLocks = @ \cup {rn[k].station}]
               /\ rn' = [rn EXCEPT ![k].pc = "sensors", ![k].sent = @ + 1,
                                   ![k].metaClient = client]
    /\ UNCHANGED <<AdFrame, client, nClients, closedClients, adSem>>

\* A run call that waited for the lock of get_station_info or of
\* get_sensors gets it and looks at the cache again.
LockGranted(k) ==
    /\ \/ rn[k].pc = "infoWait" /\ ~handler.infoLock
       \/ rn[k].pc = "sensorsWait" /\ rn[k].station \notin handler.sensorLocks
    /\ IF handler.stationInfo \/ rn[k].pc = "sensorsWait"
       THEN AfterStations(k, rn[k])
       ELSE IF client \in closedClients \/ client = 0
       THEN rn' = [rn EXCEPT ![k] = RunEnds(k, IF client = 0 THEN "notopen" ELSE "closed")]
            /\ UNCHANGED handler
       ELSE /\ rn' = [rn EXCEPT ![k].pc = "info", ![k].sent = @ + 1, ![k].metaClient = client]
            /\ handler' = [handler EXCEPT !.infoLock = TRUE]
    /\ UNCHANGED <<AdFrame, client, nClients, closedClients, adSem>>

\* The sensors request is answered: the sensors of the station are cached
\* and the request tasks of the run are created.  A client closed meanwhile
\* makes the request raise.
SensorsReturn(k) ==
    /\ rn[k].pc = "sensors"
    /\ IF rn[k].metaClient \in closedClients
       THEN /\ handler' = [handler EXCEPT !.sensorLocks = @ \ {rn[k].station}]
            /\ rn' = [rn EXCEPT ![k] = RunEnds(k, "closed")]
       ELSE /\ handler' = [handler EXCEPT !.stationSensors = @ \cup {rn[k].station},
                                          !.sensorLocks = @ \ {rn[k].station}]
            /\ rn' = [rn EXCEPT ![k].pc = "tasks",
                                ![k].phase = [i \in 1..TasksPerRun |-> "new"],
                                ![k].used = [i \in 1..TasksPerRun |-> 0]]
    /\ UNCHANGED <<AdFrame, client, nClients, closedClients, adSem>>

\* ProvinceMeteo._create_request_task up to the answer: without a client it
\* raises; otherwise it takes a token and sends on the adapter's client; a
\* closed client raises inside the try block and the task returns None.
RequestSend(k, i) ==
    /\ rn[k].pc = "tasks"
    /\ i \in DOMAIN rn[k].phase
    /\ rn[k].phase[i] = "new"
    /\ IF client = 0
       THEN /\ rn' = [rn EXCEPT ![k] = RunEnds(k, "notopen")]
            /\ UNCHANGED adSem
       ELSE /\ adSem > 0
            /\ IF client \in closedClients
               THEN /\ rn' = [rn EXCEPT ![k].phase[i] = "none"]
                    /\ UNCHANGED adSem
               ELSE /\ rn' = [rn EXCEPT ![k].phase[i] = "flying", ![k].used[i] = client,
                                        ![k].sent = @ + 1]
                    /\ adSem' = adSem - 1
    /\ UNCHANGED <<AdFrame, client, nClients, closedClients, handler>>

\* The answer of a request task: rows, or None (no rows, an HTTP error, a
\* client that was closed meanwhile); the token goes back.
RequestBack(k, i) ==
    /\ rn[k].pc = "tasks"
    /\ i \in DOMAIN rn[k].phase
    /\ rn[k].phase[i] = "flying"
    /\ \E res \in IF rn[k].used[i] \in closedClients THEN {"none"} ELSE {"rows", "none"} :
        rn' = [rn EXCEPT ![k].phase[i] = res]
    /\ adSem' = adSem + 1
    /\ UNCHANGED <<AdFrame, client, nClients, closedClients, handler>>

\* asyncio.gather is back: get_raw_data returns the concatenated answers or
\* None, and run returns the transformed frame or None.
RunReturn(k) ==
    /\ rn[k].pc = "tasks"
    /\ \A i \in DOMAIN rn[k].phase : rn[k].phase[i] \in {"rows", "none"}
    /\ rn' = [rn EXCEPT ![k] =
                 RunEnds(k, IF \E i \in DOMAIN rn[k].phase : rn[k].phase[i] = "rows"
                            THEN "rows" ELSE "none")]
    /\ UNCHANGED <<AdFrame, client, nClients, closedClients, adSem, handler>>

\* The caller has the outcome of its run call.
RunOver(k) ==
    /\ rn[k].pc = "done"
    /\ rn' = [rn EXCEPT ![k] = [IdleRunner EXCEPT !.inScope = rn[k].inScope, !.n = rn[k].n]]
    /\ UNCHANGED <<AdFrame, client, nClients, closedClients, adSem, handler>>

NextAd ==
    \E k \in Runners :
        \/ ScopeEnter(k)
        \/ ScopeExit(k)
        \/ RunStart(k)
        \/ InfoReturn(k)
        \/ LockGranted(k)
        \/ SensorsReturn(k)
        \/ \E i \in 1..TasksPerRun : RequestSend(k, i) \/ RequestBack(k, i)
        \/ RunReturn(k)
        \/ RunOver(k)

InitAd == InitWith("adapter")
SpecAd == InitAd /\ [][NextAd]_vars

\* -------------------------------------------- callers of get_station_info

\* The station directory the stations request of the province answers with,
\* keyed by station code, and what a caller asks about: a station of the
\* directory or a code that is not in it.
Directory == [st \in StationIds |-> [id |-> st, name |-> "name of " \o st]]
AskedIds == StationIds \cup {"S9"}

\* self.station_info.get(station_id, {})
Entry(st) == IF st \in DOMAIN Directory THEN Directory[st] ELSE <<>>

\* The call returns a value.
InfoGives(k, rec, v) == [rec EXCEPT !.pc = "done", !.outcome = "value", !.value = v]

\* get_station_info after the lock is taken: a directory cached meanwhile is
\* returned whole; else, ValueError without a client, or the stations
\* request goes out on the adapter's client.
InfoLocked(k, rec) ==
    IF handler.stationInfo
    THEN rn' = [rn EXCEPT ![k] = InfoGives(k, rec, Directory)] /\ UNCHANGED handler
    ELSE IF client = 0
    THEN rn' = [rn EXCEPT ![k] = [rec EXCEPT !.pc = "done", !.outcome = "notopen"]]
         /\ UNCHANGED handler
    ELSE /\ rn' = [rn EXCEPT ![k] = [rec EXCEPT !.pc = "info", !.sent = @ + 1,
                                                 !.metaClient = client]]
         /\ handler' = [handler EXCEPT !.infoLock = TRUE]

\* get_station_info(station_id) up to its first suspension: the cached
\* directory answers with the entry of the station; otherwise the call takes
\* the lock or waits for it.
StationInfoCall(k) ==
    /\ mode = "stations"
    /\ rn[k].pc = "idle"
    /\ rn[k].n < MaxRuns
    /\ \E st \in AskedIds :
        LET rec == [rn[k] EXCEPT !.station = st, !.n = @ + 1, !.outcome = "", !.value = <<>>]
        IN IF handler.stationInfo
           THEN rn' = [rn EXCEPT ![k] = InfoGives(k, rec, Entry(st))] /\ UNCHANGED handler
           ELSE IF handler.infoLock
           THEN rn' = [rn EXCEPT ![k] = [rec EXCEPT !.pc = "infoWait"]] /\ UNCHANGED handler
           ELSE InfoLocked(k, rec)
    /\ UNCHANGED <<AdFrame, client, nClients, closedClients, adSem>>

\* The stations request is answered: an error status or a closed client
\* raises; otherwise the directory is cached and the entry of the station
\* returned.  The lock is released either way.
StationInfoAnswer(k) ==
    /\ mode = "stations"
    /\ rn[k].pc = "info"
    /\ \E ok \in IF rn[k].metaClient \in closedClients THEN {FALSE} ELSE BOOLEAN :
         IF ok
         THEN /\ handler' = [handler EXCEPT !.stationInfo = TRUE, !.infoLock = FALSE]
              /\ rn' = [rn EXCEPT ![k] = InfoGives(k, rn[k], Entry(rn[k].station))]
         ELSE /\ handler' = [handler EXCEPT !.infoLock = FALSE]
              /\ rn' = [rn EXCEPT ![k] = [rn[k] EXCEPT !.pc = "done", !.outcome = "raised",
                                                       !.failed = @ + 1]]
    /\ UNCHANGED <<AdFrame, client, nClients, closedClients, adSem>>

\* A call that waited for the lock gets it.
StationInfoGranted(k) ==
    /\ mode = "stations"
    /\ rn[k].pc = "infoWait"
    /\ ~handler.infoLock
    /\ InfoLocked(k, rn[k])
    /\ UNCHANGED <<AdFrame, client, nClients, closedClients, adSem>>

\* The caller has its value or its exception.
StationInfoOver(k) ==
    /\ mode = "stations"
    /\ rn[k].pc = "done"
    /\ rn' = [rn EXCEPT ![k].pc = "idle"]
    /\ UNCHANGED <<AdFrame, client, nClients, closedClients, adSem, handler>>

NextStations ==
    \E k \in Runners :
        \/ ScopeEnter(k)
        \/ ScopeExit(k)
        \/ StationInfoCall(k)
        \/ StationInfoAnswer(k)
        \/ StationInfoGranted(k)
        \/ StationInfoOver(k)

InitStations == InitWith("stations")
SpecStations == InitStations /\ [][NextStations]_vars

\* --------------------------------------------------- callers of the helpers

\* Arguments of split_dates: starts on and off the grid of the frequency,
\* at the start of a year and on its last day; ranges of no length, of less
\* than a day, of whole days and of days and a rest; chunk_size_days of one
\* day, two days and the default of a year.
SplitStarts == {0, 5, YearMinutes - DayMinutes, YearMinutes - DayMinutes + 5, YearMinutes - 30}
SplitSpans == {0, 25, DayMinutes - 5, DayMinutes, 2 * DayMinutes, 3 * DayMinutes + 30}
SplitFreqs == {10, 60}
SplitDays == {1, 2, 365}

\* A caller (get_raw_data of an adapter, a script) calls split_dates.
SplitDatesCall ==
    /\ mode = "helpers"
    /\ fn.pc = "idle"
    /\ \E s \in SplitStarts, d \in SplitSpans \cup {-10}, f \in SplitFreqs,
          n \in SplitDays, y \in BOOLEAN :
        fn' = [pc |-> "done", name |-> "split_dates", args |-> <<s, s + d, f, n, y>>,
               out |-> SplitDates(s, s + d, f, n, y)]
    /\ UNCHANGED <<mode, adapter, store, client, nClients, closedClients, qmSem, adSem,
                   calls, req, hist, stations, wr, gf, handler, rn>>

\* The lists of distinct instants of the grid 0, f, .., MaxSteps * f
RECURSIVE DistinctLists(_)
DistinctLists(S) ==
    {<<>>} \cup UNION {{<<x>> \o l : l \in DistinctLists(S \ {x})} : x \in S}

\* find_data_gaps calls derive_datetime_gaps with the missing instants.
DeriveDatetimeGapsCall ==
    /\ mode = "helpers"
    /\ fn.pc = "idle"
    /\ \E f \in SplitFreqs :
         \E ts \in DistinctLists(Instants(f)) :
            fn' = [pc |-> "done", name |-> "derive_datetime_gaps", args |-> <<ts, f>>,
                   out |-> DeriveDatetimeGaps(ts, f)]
    /\ UNCHANGED <<mode, adapter, store, client, nClients, closedClients, qmSem, adSem,
                   calls, req, hist, stations, wr, gf, handler, rn>>

\* The caller has the result.
HelperCallOver ==
    /\ mode = "helpers"
    /\ fn.pc = "done"
    /\ fn' = IdleFn
    /\ UNCHANGED <<mode, adapter, store, client, nClients, closedClients, qmSem, adSem,
                   calls, req, hist, stations, wr, gf, handler, rn>>

NextHelpers == SplitDatesCall \/ DeriveDatetimeGapsCall \/ HelperCallOver

InitHelpers == InitWith("helpers")
SpecHelpers == InitHelpers /\ [][NextHelpers]_vars

\* ------------------------------------------------ callers of the gap finder

\* The datetimes a caller passes as start and end, in minutes.
GapTimes == {0, 15, 40, 60, 180}

\* The values of existing_dates: instants of the 10-minute and of the hourly
\* grid, one instant off the grid, none.
ExistingMenu ==
    { {}, {0}, {10}, {20}, {5}, {0, 40}, {0, 10, 20, 40}, {0, 10, 20, 30, 40},
      {60}, {0, 120}, {0, 180}, {0, 60, 120, 180} }

GapZones ==
    { <<"UTC", "UTC">>, <<"naive", "naive">>, <<"Europe/Rome", "Europe/Rome">>,
      <<"UTC", "naive">>, <<"UTC", "Europe/Rome">> }

\* A caller calls find_data_gaps and has its list or its exception.
FindDataGapsStep ==
    /\ mode = "gap"
    /\ gf.pc = "idle"
    /\ \E kind \in {"index", "series", "list"}, ex \in ExistingMenu, exTz \in {"UTC", "naive"},
          s \in GapTimes, e \in GapTimes, z \in GapZones,
          freq \in {"10min", "1h", "bogus"}, incl \in {"both", "right"},
          tz \in {"none", "Europe/Rome"} :
        gf' = [pc |-> "done", existingKind |-> kind, existingDates |-> ex, existingTz |-> exTz,
               start |-> s, startTz |-> z[1], end |-> e, endTz |-> z[2], freq |-> freq,
               inclusive |-> incl, tz |-> tz,
               out |-> FindDataGapsCall(kind, ex, exTz, s, z[1], e, z[2], freq, incl, tz)]
    /\ UNCHANGED <<mode, adapter, store, client, nClients, closedClients, qmSem, adSem,
                   calls, req, hist, stations, wr, handler, rn, fn>>

\* The caller is ready for its next call.
GapCallOver ==
    /\ mode = "gap"
    /\ gf.pc = "done"
    /\ gf' = IdleGf
    /\ UNCHANGED <<mode, adapter, store, client, nClients, closedClients, qmSem, adSem,
                   calls, req, hist, stations, wr, handler, rn, fn>>

NextGap == FindDataGapsStep \/ GapCallOver

InitGap == InitWith("gap")
SpecGap == InitGap /\ [][NextGap]_vars

\* ------------------------------------------------- callers of insert_data

\* MeteoDB.insert_data from the station lookup on, run without suspension:
\* the station row is there; the variables are registered, the frame is
\* melted and appended.  An exception of to_sql is logged, not raised.
BulkInsert(w, rec) ==
    /\ store' = InsertData(store, rec.df)
    /\ wr' = [wr EXCEPT ![w] =
                [rec EXCEPT !.pc = "done",
                            !.outcome = IF Collides(store, rec.df) THEN "failed" ELSE "inserted",
                            !.raised = FALSE,
                            !.before = store,
                            !.after = InsertData(store, rec.df)]]

\* insert_data is called with a frame.  An empty frame returns at once; with
\* the station in the table the call runs to its end; without it,
\* insert_station enters the adapter's scope and waits for the station's
\* metadata.
InsertDataCall(w) ==
    /\ mode = "store"
    /\ wr[w].pc \in {"idle", "done"}
    /\ wr[w].n < MaxInserts
    /\ \E df \in FrameMenu(adapter) :
        LET rec == [wr[w] EXCEPT !.df = df, !.n = @ + 1, !.outcome = "", !.raised = FALSE,
                                 !.prevDf = wr[w].df, !.prevOutcome = wr[w].outcome,
                                 !.prevAfter = wr[w].after]
        IN IF df = <<>>
           THEN /\ wr' = [wr EXCEPT ![w] = [rec EXCEPT !.pc = "done", !.outcome = "empty",
                                                       !.before = store, !.after = store]]
                /\ UNCHANGED <<store, client, nClients>>
           ELSE IF Station \in stations
           THEN /\ BulkInsert(w, rec)
                /\ UNCHANGED <<client, nClients>>
           ELSE /\ wr' = [wr EXCEPT ![w] = [rec EXCEPT !.pc = "info"]]
                /\ nClients' = nClients + 1
                /\ client' = nClients + 1
                /\ UNCHANGED store
    /\ UNCHANGED <<mode, adapter, closedClients, qmSem, adSem, calls, req, hist, stations, gf, handler, rn, fn>>

\* The metadata is there: insert_station leaves the scope and commits the
\* station row.  When the table holds the station by now the commit fails,
\* insert_station returns None and insert_data gives up ("No stations could
\* be inserted"); otherwise the call runs to its end.
InsertStationCommit(w) ==
    /\ wr[w].pc = "info"
    /\ closedClients' = closedClients \cup {client}
    /\ IF Station \in stations
       THEN /\ wr' = [wr EXCEPT ![w].pc = "done", ![w].outcome = "skipped",
                                ![w].before = store, ![w].after = store]
            /\ UNCHANGED <<store, stations>>
       ELSE /\ stations' = stations \cup {Station}
            /\ BulkInsert(w, wr[w])
    /\ UNCHANGED <<mode, adapter, client, nClients, qmSem, adSem, calls, req, hist, gf, handler, rn, fn>>

NextStore == \E w \in Writers : InsertDataCall(w) \/ InsertStationCommit(w)

InitStore == InitWith("store")
SpecStore == InitStore /\ [][NextStore]_vars


\* ------------------------------------------------------------- properties

Returned(r) == req[r].pc = "done"
Fetched(r) == Returned(r) /\ req[r].enters > 0
NonEmptyRange(r) == req[r].startRound < req[r].endRound
Grid(r) == DateRange(req[r].startRound, req[r].endRound, adapter.freq, "both")
Datetimes(frame) == {frame[i].datetime : i \in DOMAIN frame}
Unique(frame) == \A i, j \in DOMAIN frame : i # j => Key(frame[i]) # Key(frame[j])
GapGrid(task) == DateRange(task.startGap, task.endGap, adapter.freq, "both")

\* C1 (grid completeness): when get_data returns for a non-empty rounded
\* range, every instant of the grid from floor(start) to floor(end) has a row
\* in the combined frame, and no key (datetime, station_id, model) occurs
\* twice in it, whatever the cache held and whatever the provider answered.
C1_GridCompleteness ==
    \A r \in Reqs :
        (Returned(r) /\ NonEmptyRange(r)) =>
            /\ Range(Grid(r)) \subseteq Datetimes(req[r].combined)
            /\ Unique(req[r].combined)

\* C2 (no duplicates): in both frames get_data returns, the key
\* (datetime, station_id, model) is unique.
C2_NoDuplicates ==
    \A r \in Reqs :
        Returned(r) => Unique(req[r].combined) /\ Unique(req[r].pending)

\* C3 (cache authority): when the cached frame holds every grid instant of
\* the rounded range, get_data returns an empty pending frame and the cached
\* rows as combined, and neither enters the adapter's scope nor runs it.
C3_CacheAuthority ==
    \A r \in Reqs :
        (Returned(r) /\ NonEmptyRange(r)
            /\ Range(Grid(r)) \subseteq Datetimes(req[r].existing)) =>
            /\ req[r].pending = <<>>
            /\ req[r].combined = req[r].existing
            /\ req[r].enters = 0
            /\ req[r].runs = 0

C3_Witness ==
    \E r \in Reqs :
        /\ Returned(r) /\ NonEmptyRange(r)
        /\ Len(Grid(r)) >= 3
        /\ Range(Grid(r)) \subseteq Datetimes(req[r].existing)
        /\ Datetimes(req[r].existing) # Datetimes(FrameOf(store))

RowsWithKey(frame, k) == {frame[i] : i \in {j \in DOMAIN frame : Key(frame[j]) = k}}
FetchedRows(r) == UNION {Range(req[r].done[k].data) : k \in DOMAIN req[r].done}

Perms(n) == {p \in [1..n -> 1..n] : \A i, j \in 1..n : i # j => p[i] # p[j]}
Reorder(seq, p) == [i \in DOMAIN seq |-> seq[p[i]]]

\* C6 (merge determinism): for the cache content and the per-gap results of
\* a call, the rows of the combined frame and of the pending frame are the
\* same for every order in which the gap tasks could have completed.
C6_MergeDeterminism ==
    \A r \in Reqs :
        Fetched(r) =>
            \A p \in Perms(Len(req[r].done)) :
                LET other == GetDataResult(req[r].existing, Reorder(req[r].done, p),
                                           Station, req[r].models, adapter.freq)
                IN /\ Range(other[1]) = Range(req[r].combined)
                   /\ Range(other[2]) = Range(req[r].pending)

Failed(task) == task.kind = "fail"
Succeeded(task) == task.kind = "rows"
Tasks(r) == Range(req[r].done)

\* C7 (failure isolation): a call that passed its argument checks returns
\* whatever subset of its gap tasks fails; the combined frame has a row for
\* every cached key and for every key of a row a succeeded gap returned; and
\* when every gap failed and the cache was empty, both frames are empty.
C7_ReturnsNormally ==
    [][\A r \in Reqs : req[r].pc = "fetch" => req'[r].pc \in {"fetch", "done"}]_vars

C7_Assembled ==
    \A r \in Reqs :
        Fetched(r) =>
            /\ Keys(req[r].existing) \subseteq Keys(req[r].combined)
            /\ \A task \in Tasks(r) :
                 Succeeded(task) => Keys(task.data) \subseteq Keys(req[r].combined)
            /\ ((\A task \in Tasks(r) : Failed(task)) /\ req[r].existing = <<>>) =>
                 (req[r].combined = <<>> /\ req[r].pending = <<>>)

C8_FailedGapOmitted ==
    \A r \in Reqs :
        Fetched(r) =>
            \A task \in Tasks(r) :
                Failed(task) =>
                    ~ \E i \in DOMAIN req[r].pending :
                        /\ req[r].pending[i].datetime \in Range(GapGrid(task))
                        /\ req[r].pending[i].tair_2m = NA

RequestedModels(r) == IF req[r].models = <<>> THEN {""} ELSE Range(req[r].models)

\* C9 (explicit gap markers): when the provider answered a gap with nothing,
\* the pending frame has, for every grid instant of the gap and every
\* requested model ("" when none), exactly one row, with every variable NULL,
\* whether or not the cache held rows.
C9_ExplicitGapMarkers ==
    \A r \in Reqs :
        Fetched(r) =>
            \A task \in Tasks(r) :
                task.kind = "none" =>
                    \A t \in Range(GapGrid(task)) : \A m \in RequestedModels(r) :
                        LET rows == {i \in DOMAIN req[r].pending :
                                        /\ req[r].pending[i].datetime = t
                                        /\ req[r].pending[i].station_id = Station
                                        /\ req[r].pending[i].model = m}
                        IN /\ Cardinality(rows) = 1
                           /\ \A i \in rows : req[r].pending[i].tair_2m = NA

\* C4 (get_data is safe to call concurrently): when get_data calls on the
\* same adapter overlap, no upstream request of a call goes out on an HTTP
\* client that another call's scope exit has already closed.
C4_ConcurrentSafe ==
    \A r \in Reqs : ~ req[r].onClosed

NullInstants(frame) == {frame[i].datetime : i \in {j \in DOMAIN frame : frame[j].tair_2m = NA}}
SameRangeAgain(r) ==
    /\ hist.valid
    /\ NullInstants(hist.pending) # {}
    /\ req[r].pc \in {"fetch", "done"}
    /\ req[r].startRound = hist.startRound
    /\ req[r].endRound = hist.endRound

\* C10 (persisted gap markers stop refetching): after a pending frame with
\* all-NULL rows was handed to insert_data, a later get_data for the same
\* station and range has no gap over the instants of those rows, sends the
\* adapter no request, and returns an empty pending frame.
C10_MarkersStopRefetch ==
    \A r \in Reqs :
        SameRangeAgain(r) =>
            /\ \A i \in DOMAIN req[r].gaps :
                 Range(DateRange(req[r].gaps[i][1], req[r].gaps[i][2], adapter.freq, "both"))
                    \cap NullInstants(hist.pending) = {}
            /\ req[r].runs = 0
            /\ req[r].pending = <<>>

Started(r) == req[r].pc # "idle"
Now == NowOf(adapter.freq)
RangeErrors ==
    { "start_time must be timezone-aware", "end_time must be timezone-aware",
      "start_time and end_time must have the same timezone",
      "start_time must be before end_time", "start_time must be in the past" }
TimesValid(r) ==
    ValidateQueryTimes(req[r].start, req[r].end, Now, req[r].startTz, req[r].endTz) = "ok"
NothingTouched(r) == req[r].reads = 0 /\ req[r].enters = 0 /\ req[r].runs = 0

InvalidRange(r) ==
    \/ req[r].startTz = "naive"
    \/ req[r].endTz = "naive"
    \/ req[r].startTz # req[r].endTz
    \/ req[r].start >= req[r].end
    \/ req[r].start > Now

\* C18 (range validation): get_data ends with a range error, before any
\* cache read or fetch, exactly when start or end is naive, their zones
\* differ, start is not strictly before end, or start lies in the future.
C18_RangeValidation ==
    \A r \in Reqs :
        Started(r) =>
            /\ InvalidRange(r) =>
                 (req[r].pc = "raised" /\ req[r].error \in RangeErrors /\ NothingTouched(r))
            /\ ~ InvalidRange(r) => req[r].error \notin RangeErrors

\* C20 (a future end is capped): when end is later than the clock, the
\* rounded end is floor(now, freq), no gap reaches past it, and the combined
\* frame has no row later than it.
C20_FutureEndCapped ==
    \A r \in Reqs :
        (req[r].pc \in {"fetch", "done"} /\ req[r].end > Now) =>
            LET nowFloor == Floor(Now, adapter.freq)
            IN /\ req[r].endRound = nowFloor
               /\ \A i \in DOMAIN req[r].gaps : req[r].gaps[i][2] <= nowFloor
               /\ \A i \in DOMAIN req[r].combined : req[r].combined[i].datetime <= nowFloor

ExtendsPersisted(r) ==
    /\ hist.valid
    /\ Returned(r)
    /\ \/ req[r].startRound < hist.startRound /\ req[r].endRound = hist.endRound
       \/ req[r].startRound = hist.startRound /\ req[r].endRound > hist.endRound

\* C11 (incremental fetch): after a range was queried and its pending frame
\* inserted, a query that extends the range before its start or after its
\* end returns a combined frame with every instant of the new grid and a
\* pending frame whose rows are exactly the grid instants the store did not
\* hold, each once.
C11_IncrementalFetch ==
    \A r \in Reqs :
        ExtendsPersisted(r) =>
            /\ Range(Grid(r)) \subseteq Datetimes(req[r].combined)
            /\ Datetimes(req[r].pending) = Range(Grid(r)) \ Datetimes(req[r].existing)
            /\ Unique(req[r].pending)

\* ------------------------------------------------- claims about the store

\* The insert_data call of writer w is over and reached the bulk insert.
Inserted(w) == wr[w].pc = "done" /\ wr[w].outcome \in {"inserted", "failed"}

StoreKeys(frame) == {StoreKey(frame[i]) : i \in DOMAIN frame}
UniqueKeys(frame) ==
    \A i, j \in DOMAIN frame : i # j => StoreKey(frame[i]) # StoreKey(frame[j])
StoredWithKey(st, k) == {r \in st : StoreKey(r) = k}

\* The writer handed the same frame to insert_data twice in a row, both
\* calls ran to the end of the function, and nobody wrote in between.
InsertedTwice(w) ==
    /\ wr[w].pc = "done"
    /\ wr[w].n >= 2
    /\ wr[w].df = wr[w].prevDf
    /\ wr[w].outcome \in {"inserted", "failed", "empty"}
    /\ wr[w].prevOutcome \in {"inserted", "failed", "empty"}
    /\ wr[w].before = wr[w].prevAfter

\* C12 (idempotent insert): inserting a frame a second time leaves the
\* measurements table as the first insert left it, and every query over the
\* grid answers the same before and after the second insert.
C12_IdempotentInsert ==
    \A w \in Writers :
        InsertedTwice(w) =>
            /\ wr[w].after = wr[w].before
            /\ \A a, b \in Instants(adapter.freq) :
                   QueryData(wr[w].after, Station, a, b) = QueryData(wr[w].before, Station, a, b)

C12_Witness ==
    \E w \in Writers :
        /\ InsertedTwice(w)
        /\ wr[w].prevOutcome = "inserted"
        /\ wr[w].outcome = "failed"
        /\ Range(wr[w].df) \subseteq store

\* C13 (the store keeps the newer value): after an insert_data call that
\* reached the bulk insert with a frame of distinct keys, every key of the
\* frame that the table held with another value has exactly one stored row,
\* and that row is the frame's.
C13_StoreLastWriteWins ==
    \A w \in Writers :
        (Inserted(w) /\ UniqueKeys(wr[w].df)) =>
            \A i \in DOMAIN wr[w].df :
                (\E old \in wr[w].before :
                    StoreKey(old) = StoreKey(wr[w].df[i]) /\ old # wr[w].df[i]) =>
                        StoredWithKey(wr[w].after, StoreKey(wr[w].df[i])) = {wr[w].df[i]}

\* C14 (overlapping writes both commit): when two writers have each
\* inserted one pending frame, the frames share a key, they agree on the
\* rows of the keys they share, and the table was empty before the first of
\* them, the table holds every key of both frames exactly once.
C14_OverlappingWritesCommit ==
    \A w1, w2 \in Writers :
        (/\ w1 # w2
         /\ Inserted(w1) /\ Inserted(w2)
         /\ wr[w1].n = 1 /\ wr[w2].n = 1
         /\ wr[w1].before = {}
         /\ UniqueKeys(wr[w1].df) /\ UniqueKeys(wr[w2].df)
         /\ StoreKeys(wr[w1].df) \cap StoreKeys(wr[w2].df) # {}
         /\ \A i \in DOMAIN wr[w1].df : \A j \in DOMAIN wr[w2].df :
                StoreKey(wr[w1].df[i]) = StoreKey(wr[w2].df[j]) => wr[w1].df[i] = wr[w2].df[j])
        => \A k \in StoreKeys(wr[w1].df) \cup StoreKeys(wr[w2].df) :
               Cardinality(StoredWithKey(store, k)) = 1

\* C15 (insert_station is safe under concurrency): the stations table never
\* holds a station twice, and no insert_data call ends without a station
\* for its rows.
C15_EnsureStationSafe ==
    /\ Cardinality(stations) <= 1
    /\ \A w \in Writers : wr[w].pc = "done" => wr[w].outcome # "skipped"

\* C16 (a failed bulk insert is an error): an insert_data call whose bulk
\* insert failed raised to its caller, and the table is as it was before
\* the call.
C16_FailedInsertSurfaces ==
    \A w \in Writers :
        (wr[w].pc = "done" /\ wr[w].outcome = "failed") =>
            /\ wr[w].raised
            /\ wr[w].after = wr[w].before

\* ---------------------------------------------- claims about the workflow

FutureStart(r) == Started(r) /\ req[r].start # None /\ req[r].start > Now

\* C19 (PastOnly): a query with a future start on an adapter that is no
\* forecast provider is rejected with the PastOnly error before get_data is
\* called, the store read or the adapter entered; on a forecast adapter
\* such a query with a non-empty range is handed to get_data and no error
\* is raised for it.
C19_PastOnly ==
    \A r \in Reqs :
        FutureStart(r) =>
            IF adapter.canForecast
            THEN (req[r].end = None \/ req[r].start < req[r].end) =>
                     /\ req[r].delegated
                     /\ req[r].pc # "raised"
            ELSE /\ req[r].pc = "raised"
                 /\ req[r].error = PastOnlyError
                 /\ ~req[r].delegated
                 /\ req[r].reads = 0
                 /\ req[r].enters = 0

GetDataReturned(r) == req[r].delegated /\ req[r].pc \in {"done", "answered"}

\* C21 (timezone round trip): a query whose bounds are in zone Z returns a
\* frame whose datetime index is in zone Z, on the cache-hit path and on the
\* fetch path, and the frame speaks about the UTC instants of the same range
\* asked in UTC (the rounded UTC range does not depend on Z).
C21_TimezoneRoundTrip ==
    \A r \in Reqs :
        GetDataReturned(r) =>
            /\ req[r].indexTz \subseteq {req[r].startTz}
            /\ <<req[r].startRound, req[r].endRound>>
                 = RoundRangeToFreq(req[r].start, req[r].end, adapter.freq, Now)

\* The zone a query is to be read in: query.timezone when given, else the
\* zone of a bound that has one, else the configured default.
EffectiveZone(r) ==
    IF req[r].qTz # "none" THEN req[r].qTz
    ELSE IF req[r].qStart # None /\ req[r].qStartTz # "naive" THEN req[r].qStartTz
    ELSE IF req[r].qEnd # None /\ req[r].qEndTz # "naive" THEN req[r].qEndTz
    ELSE RuntimeDefaultTimezone

\* C22 (effective timezone): run_timeseries_query uses query.timezone as the
\* zone of the query whenever it is given, otherwise the zone of a provided
\* bound, otherwise the configured default, and a naive start or end is read
\* as wall time in that zone.
C22_EffectiveTimezone ==
    \A r \in Reqs :
        mode = "wf" /\ Started(r) =>
            /\ req[r].tzName = EffectiveZone(r)
            /\ req[r].qStart # None /\ req[r].qStartTz = "naive"
                 => req[r].start = Localize(req[r].qStart, EffectiveZone(r))
            /\ req[r].qEnd # None /\ req[r].qEndTz = "naive"
                 => req[r].end = Localize(req[r].qEnd, EffectiveZone(r))

CarriesData(row) == row.tair_2m # NA

\* C23 (latest query): a query with latest and without bounds is answered
\* with exactly one record, the one of the greatest datetime among the rows
\* that carry data; the record is no all-NULL row when some row of the
\* window carries a value.
C23_LatestQuery ==
    \A r \in Reqs :
        (/\ req[r].pc = "answered"
         /\ req[r].latest
         /\ req[r].qStart = None
         /\ req[r].qEnd = None)
        => LET withData == {i \in DOMAIN req[r].combined : CarriesData(req[r].combined[i])}
           IN /\ Len(req[r].records) = 1
              /\ withData # {}
                   => /\ CarriesData(req[r].records[1])
                      /\ req[r].records[1].datetime
                           = Max({req[r].combined[i].datetime : i \in withData})

\* -------------------------------------------- claims about the gap finder

GfDone == gf.pc = "done"
GfReturns == GfDone /\ gf.out.kind = "returned"
GfFreq == ParseFreq(gf.freq)
GfFreqParses == gf.freq \in {"10min", "1h"}
GfZone == IF gf.startTz = "naive" THEN gf.tz ELSE gf.startTz
GfStart == IF gf.startTz = "naive" THEN Localize(gf.start, gf.tz) ELSE gf.start
GfEnd == IF gf.endTz = "naive" THEN Localize(gf.end, gf.tz) ELSE gf.end
GfExisting ==
    IF gf.existingTz = "naive" THEN {Localize(t, gf.tz) : t \in gf.existingDates}
    ELSE gf.existingDates
GfGrid ==
    {FloorIn(GfStart, GfFreq, GfZone) + k * GfFreq : k \in 0..(Max(GapTimes) \div GfFreq)}
        \cap (IF gf.inclusive = "right" THEN FloorIn(GfStart, GfFreq, GfZone) + 1
              ELSE FloorIn(GfStart, GfFreq, GfZone))..FloorIn(GfEnd, GfFreq, GfZone)
GfGaps == Range(gf.out.gaps)
GfMissing == GfGrid \ GfExisting

\* A step behind the input checks raised: the frequency does not parse, or
\* the existing dates are naive and no zone is given.
GfStepRaised ==
    /\ GfReturns
    /\ \/ ~GfFreqParses
       \/ GfGrid # {} /\ gf.existingDates # {} /\ gf.existingTz = "naive" /\ gf.tz = "none"

\* The maximal run of missing grid instants around t is shorter than
\* min_gap_duration.
InShortRun(t) ==
    LET lo == Min({a \in GfMissing : a <= t /\ \A b \in GfGrid : (a <= b /\ b <= t) => b \in GfMissing})
        hi == Max({a \in GfMissing : a >= t /\ \A b \in GfGrid : (t <= b /\ b <= a) => b \in GfMissing})
    IN (hi + GfFreq) - lo < MinGapDuration

GapsContaining(t) == {g \in GfGaps : g[1] <= t /\ t <= g[2]}

GapsWellFormed ==
    /\ \A i \in DOMAIN gf.out.gaps :
          /\ gf.out.gaps[i][1] <= gf.out.gaps[i][2]
          /\ {gf.out.gaps[i][1], gf.out.gaps[i][2]} \subseteq GfMissing
          /\ i > 1 => gf.out.gaps[i - 1][2] + GfFreq < gf.out.gaps[i][1]
    /\ \A t \in GfGrid \cap GfExisting : GapsContaining(t) = {}

\* C24 (minimum gap coalescing): every interval find_data_gaps returns
\* for a frequency that parses has a coverage of min_gap_duration or more.
C24_MinimumGapCoalescing ==
    (GfReturns /\ GfFreqParses) =>
        \A g \in GfGaps : (g[2] + GfFreq) - g[1] >= MinGapDuration

GfInputsBad ==
    \/ gf.existingKind # "index"
    \/ gf.startTz = "naive" \/ gf.endTz = "naive"
    \/ gf.startTz # gf.endTz
    \/ GfEnd < GfStart

C27_BadFrequency ==
    (GfDone /\ ~GfFreqParses /\ gf.existingKind = "index"
        /\ gf.startTz = gf.endTz /\ gf.startTz # "naive" /\ gf.start <= gf.end) =>
        /\ gf.out.kind = "raised"
        /\ gf.out.error = "Invalid frequency"

\* ------------------------------------------------ claims about the adapter

\* The get_data call is inside its "async with provider_handler".
InScope(r) == req[r].pc = "fetch"

\* C29 (re-entry is refcounted): while a get_data call is inside its scope
\* of the adapter, the adapter's client is the one that was there when the
\* call entered, and it is not closed.
C29_ReentryRefcounted ==
    \A r \in Reqs :
        InScope(r) =>
            /\ client \notin closedClients
            /\ \A q \in Reqs : InScope(q) => req[q].scopeClient = req[r].scopeClient

\* The run call of caller k is over, and from its start on no scope of the
\* adapter was open.
RanOutsideScope(k) ==
    /\ rn[k].pc = "done"
    /\ ~rn[k].openAtStart
    /\ rn[k].clientsAtStart = nClients
    /\ \A j \in Runners : ~rn[j].inScope

\* C28 (NotOpen): a run call on an adapter with no open scope ends with an
\* error (the ValueError of the missing client, or the error of the closed
\* client) and sends no request upstream; it does not return None or rows.
C28_NotOpen ==
    \A k \in Runners :
        RanOutsideScope(k) =>
            /\ rn[k].outcome \in {"notopen", "closed"}
            /\ rn[k].sent = 0

\* Upstream requests of the adapter that are sent and not yet answered.
InFlight ==
    Cardinality({k \in Runners : rn[k].pc \in {"info", "sensors"}})
        + Cardinality({<<k, i>> \in Runners \X (1..TasksPerRun) :
                          i \in DOMAIN rn[k].phase /\ rn[k].phase[i] = "flying"})

\* C30 (semaphore bound): at most max_concurrent_requests upstream requests
\* of an adapter are in flight, and max_concurrent_requests is 1 or more.
C30_SemaphoreBound ==
    /\ handler.max >= 1
    /\ InFlight <= handler.max

\* ------------------------------------------ claims about the fetch tasks

TaskPending(r, i) ==
    /\ req[r].pc \in {"fetch", "cancelled"}
    /\ i \in DOMAIN req[r].phase
    /\ req[r].phase[i] \in {"new", "held", "inflight"}

AllTasksOver == \A r \in Reqs, i \in 1..(MaxSteps + 1) : ~TaskPending(r, i)

\* C38 (gap fetching finishes and returns its tokens): when every upstream
\* call returns or fails, every gap task of every concurrent get_data call
\* completes, and once all tasks have completed the semaphore of the query
\* manager and the semaphore of the adapter are back at their initial values,
\* also when tasks failed.
C38_FetchFinishes ==
    /\ [](AllTasksOver => qmSem = QmMaxConcurrent /\ adSem = handler.max)
    /\ \A r \in Reqs, i \in 1..(MaxSteps + 1) : TaskPending(r, i) ~> ~TaskPending(r, i)

C38_Witness ==
    /\ AllTasksOver
    /\ qmSem = QmMaxConcurrent
    /\ adSem = handler.max
    /\ \A r \in Reqs :
         /\ req[r].pc = "done"
         /\ Len(req[r].done) = 2
         /\ \E k \in DOMAIN req[r].done : req[r].done[k].kind = "fail"

\* C31 (cancellation): when a get_data call is cancelled while gap fetches
\* are in flight, its gap tasks are cancelled too: after the cancellation no
\* task of the call takes a token, calls the adapter or returns a result, and
\* none issues a further upstream call.
C31_Cancellation ==
    \A r \in Reqs : req[r].lateSteps = 0 /\ req[r].lateCalls = 0

\* C32 (provider-inclusive bounds): the end handed to adapter.run is
\* gap_end + freq exactly when the adapter is left-inclusive and the gap is
\* the last one, the start is gap_start - freq exactly when the adapter is
\* right-inclusive and the gap is the first one, otherwise the bounds are the
\* gap's own; the task reports the gap's own bounds.
C32_ProviderInclusiveBounds ==
    \A r \in Reqs :
        /\ \A i \in DOMAIN req[r].runArgs :
             req[r].runArgs[i] # <<>> =>
                LET gap == req[r].gaps[i]
                    args == req[r].runArgs[i]
                    f == adapter.freq
                    extendEnd == adapter.inclusive = "left" /\ i = Len(req[r].gaps)
                    extendStart == adapter.inclusive = "right" /\ i = 1
                IN /\ args[2] = IF extendEnd THEN gap[2] + f ELSE gap[2]
                   /\ args[1] = IF extendStart THEN gap[1] - f ELSE gap[1]
        /\ \A k \in DOMAIN req[r].done :
             \E i \in DOMAIN req[r].gaps :
                /\ req[r].phase[i] = "returned"
                /\ req[r].gaps[i] = <<req[r].done[k].startGap, req[r].done[k].endGap>>

C32_Witness ==
    \E r \in Reqs :
        /\ req[r].pc = "done"
        /\ Len(req[r].gaps) = 2
        /\ Len(req[r].done) = 2
        /\ adapter.inclusive = "left"
        /\ req[r].runArgs[1] = req[r].gaps[1]
        /\ req[r].runArgs[2] = <<req[r].gaps[2][1], req[r].gaps[2][2] + adapter.freq>>

\* ---------------------------------------------- claims about the helpers

SplitReturned == fn.pc = "done" /\ fn.name = "split_dates" /\ ~fn.out.raised
Chunks == fn.out.pairs

\* C35 (chunking partitions the range): for start <= end split_dates returns
\* chunks that are ordered, disjoint and contiguous (each starts one frequency
\* step after the one before ends), that begin at start and end at end, that
\* span at most n_days each and, with split_on_year, lie in one calendar year
\* each.
C35_ChunkingPartitions ==
    SplitReturned =>
        LET startDate == fn.args[1]
            endDate == fn.args[2]
            f == fn.args[3]
            nDays == fn.args[4]
            splitOnYear == fn.args[5]
        IN /\ Len(Chunks) >= 1
           /\ Chunks[1][1] = startDate
           /\ Chunks[Len(Chunks)][2] = endDate
           /\ \A k \in DOMAIN Chunks :
                /\ Chunks[k][1] <= Chunks[k][2]
                /\ Chunks[k][2] - Chunks[k][1] <= nDays * DayMinutes
                /\ splitOnYear => YearOf(Chunks[k][1]) = YearOf(Chunks[k][2])
                /\ k > 1 => Chunks[k][1] = Chunks[k - 1][2] + f

DeriveReturned == fn.pc = "done" /\ fn.name = "derive_datetime_gaps"

\* C36 (run coalescing): for a set of grid instants derive_datetime_gaps
\* returns the maximal runs: ordered and disjoint, covering exactly the
\* input, two instants in one run iff every step between them is in the
\* input, and no two runs one frequency step apart.
C36_RunCoalescing ==
    DeriveReturned =>
        LET input == Range(fn.args[1])
            f == fn.args[2]
            runs == fn.out
            InRun(t, k) == runs[k][1] <= t /\ t <= runs[k][2]
            StepsOf(k) == {t \in Instants(f) : InRun(t, k)}
        IN /\ \A k \in DOMAIN runs : runs[k][1] <= runs[k][2]
           /\ \A k \in DOMAIN runs : k > 1 => runs[k - 1][2] + f < runs[k][1]
           /\ UNION {StepsOf(k) : k \in DOMAIN runs} = input
           /\ \A a, b \in input :
                a < b =>
                   ((\E k \in DOMAIN runs : InRun(a, k) /\ InRun(b, k))
                      <=> \A t \in Instants(f) : a <= t /\ t <= b => t \in input)

C36_Witness ==
    /\ DeriveReturned
    /\ Len(fn.args[1]) >= 4
    /\ Len(fn.out) = 2
    /\ fn.args[1][1] > fn.args[1][2]
    /\ \E k \in DOMAIN fn.out : fn.out[k][1] < fn.out[k][2]

\* C33 (every gap is fetched): every gap the gap finder returned to a
\* get_data call, a gap of a single grid instant included, has a fetch task.
C33_EveryGapFetched ==
    \A r \in Reqs : \A i \in DOMAIN req[r].phase : req[r].phase[i] # "skipped"

\* C34 (limited only by the adapter's semaphore): no gap task waits for a
\* concurrency token while the adapter it targets has a free token.
C34_OnlyAdapterSemaphore ==
    \A r \in Reqs : \A i \in DOMAIN req[r].phase :
        (InScope(r) /\ req[r].phase[i] = "new" /\ adSem > 0) => qmSem > 0

\* The clients the adapter created and did not close.
LiveClients == (1..nClients) \ closedClients

\* C37 (single HTTP client per adapter): the adapter has at most one live
\* client, and none once every scope on it has been released.
C37_SingleClient ==
    /\ Cardinality(LiveClients) <= 1
    /\ (\A r \in Reqs : ~InScope(r)) => LiveClients = {}

\* ------------------------------------------- claims about reads and writes

\* get_data has returned to caller r with fetched rows that no insert has
\* written yet.
ReturnedUnwritten(r) ==
    /\ req[r].pc = "done"
    /\ req[r].pending # <<>>
    /\ \A i \in DOMAIN req[r].pending : req[r].pending[i] \notin store

C39_StationDirectory ==
    /\ \A k \in Runners :
         rn[k].outcome = "value" => rn[k].value = Entry(rn[k].station)
    /\ \A j, k \in Runners :
         j # k => (rn[j].sent - rn[j].failed) + (rn[k].sent - rn[k].failed) <= 1

====
